---- MODULE Spec2Model ----
(***************************************************************************)
(* CreditX: configuration store (app/config.py), pricing memo              *)
(* (app/data_cache.py), pricing rule (app/pricing.py) and the scoring      *)
(* services (app/service.py).                                              *)
(*                                                                         *)
(* Numbers: the code's floats that are only compared (broker_hit_rate,     *)
(* requested_cov_pct, thresholds) are integers in hundredths; rates and    *)
(* adjustments are integers in basis points, as in the code.               *)
(***************************************************************************)
EXTENDS Integers, Sequences, FiniteSets, TLC

VARIABLES
    doc,        \* the backing document (weights.yaml) as it is on disk now
    cfgCache,   \* lru_cache of get_weights_config: entries [key, val], MRU last
    memo,       \* lru_cache of _suggest_rate_cached: entries [key, val], MRU last
    lastOp,     \* the operation that completed last, and what it returned
    pin,        \* the outcome of the most recent reload
    prevResp,   \* the pricing response before the last one, when they are adjacent
    rl,         \* position of the thread running reload_weights
    rd,         \* position of the thread running get_weights_config()
    rdView,     \* what the reader's last completed call returned
    calc        \* input and output of the rule evaluators

vars == <<doc, cfgCache, memo, lastOp, pin, prevResp, rl, rd, rdView, calc>>

-----------------------------------------------------------------------------
(* Bounds of the model *)

\* capacity of the pricing memo; the code's capacity is 1024 (data_cache.py:16),
\* scaled down so that evictions happen within the batches of the model
MemoMaxSize == 1

\* maxsize of the lru_cache on get_weights_config
ConfigCacheMaxSize == 1

-----------------------------------------------------------------------------
(* Small helpers *)

Max2(a, b) == IF a >= b THEN a ELSE b
Min2(a, b) == IF a <= b THEN a ELSE b

Range(s) == {s[i] : i \in 1..Len(s)}

SeqsUpTo(S, n) == UNION {[1..k -> S] : k \in 1..n}

-----------------------------------------------------------------------------
(* Documents and validation: app/config.py *)

IsSpace(c) == c = " "

\* the positions of the characters that are not whitespace
NonSpace(s) == {i \in 1..Len(s) : ~IsSpace(s[i])}

LStripV(s) ==
    IF NonSpace(s) = {} THEN <<>>
    ELSE SubSeq(s, CHOOSE i \in NonSpace(s) : \A j \in NonSpace(s) : i <= j, Len(s))

RStripV(s) ==
    IF NonSpace(s) = {} THEN <<>>
    ELSE SubSeq(s, 1, CHOOSE i \in NonSpace(s) : \A j \in NonSpace(s) : j <= i)

LStrip(s0) == CHOOSE r \in {LStripV(s) : s \in {s0}} : TRUE
RStrip(s0) == CHOOSE r \in {RStripV(s) : s \in {s0}} : TRUE

\* str.strip()
Strip(s) == RStrip(LStrip(s))

\* a faulty variant of the validator: the version is not stripped before the test
NonEmptyVersionUnstripped(value) == value # <<>>

\* WeightsConfig.non_empty_version: the validator passes iff value.strip() is truthy
NonEmptyVersion(value) == Strip(value) # <<>>

TriageWeightsA ==
    [exposure_limit |-> 20, debtor_days |-> 20, financials_attached |-> 15,
     years_trading |-> 15, broker_hit_rate |-> 20, has_judgements |-> 10]

RenewalWeightsA ==
    [days_to_expiry |-> 40, utilization_pct |-> 30, claims_ratio_24m |-> 20,
     requested_change_pct |-> 10]

ThresholdsA ==
    [broker_hit_rate_min |-> 50, debtor_days_max |-> 60, high_coverage_min |-> 90,
     limited_trading_max |-> 2, debtor_days_normalization |-> 180,
     years_trading_normalization |-> 30, claims_ratio_max |-> 200,
     change_pct_min |-> -50, change_pct_max |-> 50]

AdjustmentsA ==
    [financials_attached |-> -20, broker_hit_rate |-> -15, debtor_days |-> 25,
     has_judgements |-> 60, high_coverage |-> 20, limited_trading |-> 30]

\* A document of the expected shape: every group present, with correct types.
DocA ==
    [complete |-> TRUE, version |-> <<"v", "1">>,
     triage_weights |-> TriageWeightsA, renewals_weights |-> RenewalWeightsA,
     pricing_adjustments |-> AdjustmentsA,
     pricing_bounds |-> [min_rate |-> 120, max_rate |-> 500],
     thresholds |-> ThresholdsA,
     sector_coverage_limits |-> [Retail |-> 90, Services |-> 85, default |-> 80]]

\* A second valid document: other adjustments, thresholds and (narrower) bounds.
DocB ==
    [DocA EXCEPT !.version = <<"v", "2">>,
                 !.pricing_adjustments.has_judgements = 40,
                 !.pricing_adjustments.financials_attached = -30,
                 !.thresholds.debtor_days_max = 90,
                 !.pricing_bounds = [min_rate |-> 200, max_rate |-> 260]]

\* Malformed YAML, or a document that misses required fields.
DocMalformed == [DocA EXCEPT !.complete = FALSE]

\* A complete document whose version is whitespace only.
DocBlankVersion == [DocA EXCEPT !.version = <<" ", " ">>]

\* A complete document whose version is the empty string.
DocEmptyVersion == [DocA EXCEPT !.version = <<>>]

Documents == {DocA, DocB, DocMalformed, DocBlankVersion, DocEmptyVersion}

\* The value of "no configuration" (an empty cache slot, a raised error).
NoConfig == [DocA EXCEPT !.complete = FALSE, !.version = <<>>]

\* WeightsConfig.model_validate(raw): TRUE iff validation accepts the document
ModelValidateOk(raw) == raw.complete /\ NonEmptyVersion(raw.version)

-----------------------------------------------------------------------------
(* functools.lru_cache, as used by config.py:86 and data_cache.py:16 *)

LruIndex(cache, key) ==
    IF \E i \in 1..Len(cache) : cache[i].key = key
    THEN CHOOSE i \in 1..Len(cache) : cache[i].key = key
    ELSE 0

LruRemoveAt(cache, i) == SubSeq(cache, 1, i - 1) \o SubSeq(cache, i + 1, Len(cache))

\* a hit moves the entry to the most-recently-used end
LruTouch(cache, i) == Append(LruRemoveAt(cache, i), cache[i])

\* a miss stores the new entry, evicting the least recently used one when full
LruStore(cache, key, val, maxsize) ==
    LET kept == IF Len(cache) >= maxsize THEN Tail(cache) ELSE cache
    IN  Append(kept, [key |-> key, val |-> val])

\* The two ways the code calls get_weights_config make two distinct cache keys:
\* get_weights_config() has the key (), get_weights_config(None) the key (None,).
KeyNoArgs == "()"
KeyNone == "(None,)"

\* the miss path of the lru_cache wrapper: call the function (open the document,
\* yaml.safe_load, model_validate) and store its result; an exception is not cached
LoadAndStore(cache, document, key) ==
    IF ModelValidateOk(document)
    THEN [ok |-> TRUE, cfg |-> document,
          cache |-> LruStore(cache, key, document, ConfigCacheMaxSize), read |-> TRUE]
    ELSE [ok |-> FALSE, cfg |-> NoConfig, cache |-> cache, read |-> TRUE]

\* get_weights_config under the cache: [ok, cfg, cache, read]
GetWeightsConfig(cache, document, key) ==
    LET i == LruIndex(cache, key) IN
    IF i # 0
    THEN [ok |-> TRUE, cfg |-> cache[i].val, cache |-> LruTouch(cache, i), read |-> FALSE]
    ELSE LoadAndStore(cache, document, key)

\* get_weights_config.cache_clear()
CacheClear(cache) == <<>>

\* reload_weights(path=None): clear, then get_weights_config(path)
ReloadWeights(cache, document) == GetWeightsConfig(CacheClear(cache), document, KeyNone)

\* the configuration the cache holds, whatever its key
Cached(cache) == IF cache = <<>> THEN NoConfig ELSE cache[Len(cache)].val

-----------------------------------------------------------------------------
(* The pricing rule: app/pricing.py *)

SECTOR_BASE_RATES ==
    [Retail |-> 220, Manufacturing |-> 260, Logistics |-> 240, Agri |-> 280,
     Services |-> 200, Other |-> 250]

Sectors == DOMAIN SECTOR_BASE_RATES

\* a faulty variant of price_band: the breakpoints belong to the next band
price_bandExclusive(rate_bps) ==
    IF rate_bps < 200 THEN "A"
    ELSE IF rate_bps < 250 THEN "B"
    ELSE IF rate_bps < 300 THEN "C"
    ELSE IF rate_bps < 360 THEN "D"
    ELSE "E"

\* price_band: the band code of a rate
price_band(rate_bps) ==
    IF rate_bps <= 200 THEN "A"
    ELSE IF rate_bps <= 250 THEN "B"
    ELSE IF rate_bps <= 300 THEN "C"
    ELSE IF rate_bps <= 360 THEN "D"
    ELSE "E"

\* Python truthiness of a flag column (Int8 0/1 after the feature normalizer)
Truthy(x) == x # 0

\* f"{v:+d}": the value with its own sign
FormatSigned(v) ==
    IF v >= 0 THEN [sign |-> "+", mag |-> v] ELSE [sign |-> "-", mag |-> -v]

\* f"+{v}": a literal plus sign, then the value as str(v) prints it
FormatPlusLiteral(v) ==
    IF v >= 0 THEN [sign |-> "+", mag |-> v] ELSE [sign |-> "+-", mag |-> -v]

\* one adjustment string: "<label> (<amount> bps)"
AdjString(label, amount) == [label |-> label, sign |-> amount.sign, mag |-> amount.mag]

\* f"{bound}": a clipping note carries the bound as str() prints it
FormatPlain(v) ==
    IF v >= 0 THEN [sign |-> "", mag |-> v] ELSE [sign |-> "-", mag |-> -v]

\* a faulty variant of the rule: the judgements delta taken from the debtor-days adjustment
PreClampRateJudgementsAsDays(cfg, f) ==
    LET a == cfg.pricing_adjustments
        t == cfg.thresholds
    IN  SECTOR_BASE_RATES[f.sector]
        + (IF Truthy(f.financials_attached) THEN a.financials_attached ELSE 0)
        + (IF f.broker_hit_rate >= t.broker_hit_rate_min THEN a.broker_hit_rate ELSE 0)
        + (IF f.debtor_days > t.debtor_days_max THEN a.debtor_days ELSE 0)
        + (IF Truthy(f.has_judgements) THEN a.debtor_days ELSE 0)
        + (IF f.requested_cov_pct > t.high_coverage_min THEN a.high_coverage ELSE 0)
        + (IF f.years_trading < t.limited_trading_max THEN a.limited_trading ELSE 0)

\* a faulty variant of the rule: the debtor-days delta applied from the threshold on (>= for >)
PreClampRateDaysInclusive(cfg, f) ==
    LET a == cfg.pricing_adjustments
        t == cfg.thresholds
    IN  SECTOR_BASE_RATES[f.sector]
        + (IF Truthy(f.financials_attached) THEN a.financials_attached ELSE 0)
        + (IF f.broker_hit_rate >= t.broker_hit_rate_min THEN a.broker_hit_rate ELSE 0)
        + (IF f.debtor_days >= t.debtor_days_max THEN a.debtor_days ELSE 0)
        + (IF Truthy(f.has_judgements) THEN a.has_judgements ELSE 0)
        + (IF f.requested_cov_pct > t.high_coverage_min THEN a.high_coverage ELSE 0)
        + (IF f.years_trading < t.limited_trading_max THEN a.limited_trading ELSE 0)

\* a faulty variant of the rule: the broker delta applied only above the threshold (> for >=)
PreClampRateBrokerExclusive(cfg, f) ==
    LET a == cfg.pricing_adjustments
        t == cfg.thresholds
    IN  SECTOR_BASE_RATES[f.sector]
        + (IF Truthy(f.financials_attached) THEN a.financials_attached ELSE 0)
        + (IF f.broker_hit_rate > t.broker_hit_rate_min THEN a.broker_hit_rate ELSE 0)
        + (IF f.debtor_days > t.debtor_days_max THEN a.debtor_days ELSE 0)
        + (IF Truthy(f.has_judgements) THEN a.has_judgements ELSE 0)
        + (IF f.requested_cov_pct > t.high_coverage_min THEN a.high_coverage ELSE 0)
        + (IF f.years_trading < t.limited_trading_max THEN a.limited_trading ELSE 0)

\* the rate after all deltas, before clamping (pricing.py:93-131)
PreClampRate(cfg, f) ==
    LET a == cfg.pricing_adjustments
        t == cfg.thresholds
    IN  SECTOR_BASE_RATES[f.sector]
        + (IF Truthy(f.financials_attached) THEN a.financials_attached ELSE 0)
        + (IF f.broker_hit_rate >= t.broker_hit_rate_min THEN a.broker_hit_rate ELSE 0)
        + (IF f.debtor_days > t.debtor_days_max THEN a.debtor_days ELSE 0)
        + (IF Truthy(f.has_judgements) THEN a.has_judgements ELSE 0)
        + (IF f.requested_cov_pct > t.high_coverage_min THEN a.high_coverage ELSE 0)
        + (IF f.years_trading < t.limited_trading_max THEN a.limited_trading ELSE 0)

\* the adjustment strings of the applied deltas, in the order of the checks
DeltaStrings(cfg, f) ==
    LET a == cfg.pricing_adjustments
        t == cfg.thresholds
    IN  (IF Truthy(f.financials_attached)
         THEN <<AdjString("Financials attached", FormatSigned(a.financials_attached))>>
         ELSE <<>>)
     \o (IF f.broker_hit_rate >= t.broker_hit_rate_min
         THEN <<AdjString("Good broker track record", FormatSigned(a.broker_hit_rate))>>
         ELSE <<>>)
     \o (IF f.debtor_days > t.debtor_days_max
         THEN <<AdjString("High debtor days", FormatPlusLiteral(a.debtor_days))>>
         ELSE <<>>)
     \o (IF Truthy(f.has_judgements)
         THEN <<AdjString("Outstanding judgements", FormatPlusLiteral(a.has_judgements))>>
         ELSE <<>>)
     \o (IF f.requested_cov_pct > t.high_coverage_min
         THEN <<AdjString("High coverage request", FormatPlusLiteral(a.high_coverage))>>
         ELSE <<>>)
     \o (IF f.years_trading < t.limited_trading_max
         THEN <<AdjString("Limited trading history", FormatPlusLiteral(a.limited_trading))>>
         ELSE <<>>)

\* rate = max(bounds.min_rate, min(bounds.max_rate, rate))
ClampRate(bounds, rate) == Max2(bounds.min_rate, Min2(bounds.max_rate, rate))

\* the note appended after clamping (pricing.py:136-140)
ClipNote(bounds, rate) ==
    IF rate = bounds.min_rate
    THEN <<AdjString("Rate clipped to minimum", FormatPlain(bounds.min_rate))>>
    ELSE IF rate = bounds.max_rate
         THEN <<AdjString("Rate clipped to maximum", FormatPlain(bounds.max_rate))>>
         ELSE <<>>

\* the body of _suggest_rate_cached, given the configuration it read
SuggestRateRule(cfg, f) ==
    LET rate == ClampRate(cfg.pricing_bounds, PreClampRate(cfg, f))
    IN  [rate |-> rate,
         adjustments |-> DeltaStrings(cfg, f) \o ClipNote(cfg.pricing_bounds, rate)]

\* a faulty variant of the key: has_judgements is left out
MemoKeyWithoutJudgements(row) ==
    <<row.sector, row.financials_attached, row.broker_hit_rate, row.debtor_days,
      row.requested_cov_pct, row.years_trading>>

\* the arguments suggest_rate passes on: the key of the memo
MemoKey(row) ==
    <<row.sector, row.financials_attached, row.broker_hit_rate, row.debtor_days,
      row.has_judgements, row.requested_cov_pct, row.years_trading>>

\* suggest_rate(row) under the memo: [ok, val, memo, cache]
SuggestRate(m, cache, document, row) ==
    LET i == LruIndex(m, MemoKey(row)) IN
    IF i # 0
    THEN [ok |-> TRUE, val |-> m[i].val, memo |-> LruTouch(m, i), cache |-> cache]
    ELSE LET g == GetWeightsConfig(cache, document, KeyNoArgs) IN
         IF g.ok
         THEN LET v == SuggestRateRule(g.cfg, row)
              IN  [ok |-> TRUE, val |-> v,
                   memo |-> LruStore(m, MemoKey(row), v, MemoMaxSize),
                   cache |-> g.cache]
         ELSE [ok |-> FALSE, val |-> [rate |-> 0, adjustments |-> <<>>],
               memo |-> m, cache |-> g.cache]

\* one entry of "suggestions" (service.py:175-183)
Suggestion(row, val) ==
    [id |-> row.submission_id, band_code |-> price_band(val.rate),
     suggested_rate_bps |-> val.rate, base_rate_bps |-> SECTOR_BASE_RATES[row.sector],
     adjustments |-> val.adjustments]

\* the loop of pricing_suggestions over the rows: [ok, out, memo, cache]
RECURSIVE PriceRows(_, _, _, _)
PriceRows(rows, m, cache, document) ==
    IF rows = <<>>
    THEN [ok |-> TRUE, out |-> <<>>, memo |-> m, cache |-> cache]
    ELSE LET one == SuggestRate(m, cache, document, Head(rows)) IN
         IF ~one.ok
         THEN [ok |-> FALSE, out |-> <<>>, memo |-> one.memo, cache |-> one.cache]
         ELSE LET rest == PriceRows(Tail(rows), one.memo, one.cache, document)
              IN  [ok |-> rest.ok,
                   out |-> IF rest.ok
                           THEN <<Suggestion(Head(rows), one.val)>> \o rest.out
                           ELSE <<>>,
                   memo |-> rest.memo, cache |-> rest.cache]

\* pricing_suggestions(df): [ok, cfg, read, out, memo, cache]
PricingSuggestions(m, cache, document, rows) ==
    LET g == GetWeightsConfig(cache, document, KeyNoArgs) IN
    IF ~g.ok
    THEN [ok |-> FALSE, cfg |-> NoConfig, read |-> g.read, out |-> <<>>,
          memo |-> m, cache |-> g.cache]
    ELSE LET r == PriceRows(rows, m, g.cache, document)
         IN  [ok |-> r.ok, cfg |-> g.cfg, read |-> g.read, out |-> r.out,
              memo |-> r.memo, cache |-> r.cache]

-----------------------------------------------------------------------------
(* The store and the pricing memo as one process serving requests one at    *)
(* a time (every endpoint is a coroutine that never suspends while it uses  *)
(* the configuration).                                                      *)

\* The submissions the requests of this specification draw their batches from.
SubS1 ==
    [submission_id |-> "s1", sector |-> "Services", exposure_limit |-> 750,
     debtor_days |-> 75, financials_attached |-> 1, years_trading |-> 5,
     broker_hit_rate |-> 60, requested_cov_pct |-> 80, has_judgements |-> 0]
SubS2 == [SubS1 EXCEPT !.submission_id = "s2", !.has_judgements = 1]

\* The batches a pricing request carries.
Batches == {<<SubS1>>, <<SubS2>>, <<SubS1, SubS2>>}

NoResp == [batch |-> <<>>, version |-> <<>>, out |-> <<>>]

NoOp ==
    [op |-> "none", ok |-> TRUE, cfg |-> NoConfig, read |-> FALSE,
     batch |-> <<>>, out |-> <<>>]

NoView ==
    [done |-> FALSE, overlap |-> FALSE, ok |-> TRUE, cfg |-> NoConfig,
     old |-> NoConfig, new |-> NoConfig]

ThreadsIdle ==
    /\ rl = [pc |-> "idle", old |-> NoConfig]
    /\ rd = [pc |-> "idle", overlap |-> FALSE]
    /\ rdView = NoView

RuleIdle == calc = [kind |-> "none"]

\* a fresh process: nothing loaded, nothing memoized, nothing answered yet
FreshProcess ==
    /\ cfgCache = <<>>
    /\ memo = <<>>
    /\ lastOp = NoOp
    /\ pin = [state |-> "none", cfg |-> NoConfig]
    /\ prevResp = NoResp

StoreInit == doc = DocA /\ FreshProcess

Init == StoreInit /\ ThreadsIdle /\ RuleIdle

\* the response the last operation produced, when it was a pricing response
RespOf(o) ==
    IF o.op = "price" /\ o.ok
    THEN [batch |-> o.batch, version |-> o.cfg.version, out |-> o.out]
    ELSE NoResp

\* Someone rewrites weights.yaml on disk.
EditDocument ==
    /\ \E d \in Documents \ {doc} : doc' = d
    /\ UNCHANGED <<cfgCache, memo, lastOp, pin, prevResp, rl, rd, rdView, calc>>

\* A caller asks for the configuration: get_weights_config()
GetConfig ==
    \E g \in {GetWeightsConfig(cfgCache, doc, KeyNoArgs)} :
    /\ cfgCache' = g.cache
    /\ lastOp' = [NoOp EXCEPT !.op = "get", !.ok = g.ok, !.cfg = g.cfg, !.read = g.read]
    /\ UNCHANGED <<doc, memo, pin, prevResp, rl, rd, rdView, calc>>

\* POST /admin/reload-weights: reload_weights()
Reload ==
    \E g \in {ReloadWeights(cfgCache, doc)} :
    /\ cfgCache' = g.cache
    /\ lastOp' = [NoOp EXCEPT !.op = "reload", !.ok = g.ok, !.cfg = g.cfg, !.read = g.read]
    /\ pin' = IF g.ok THEN [state |-> "ok", cfg |-> g.cfg]
              ELSE [state |-> "failed", cfg |-> Cached(cfgCache)]
    /\ UNCHANGED <<doc, memo, prevResp, rl, rd, rdView, calc>>

\* POST /pricing/suggest with a batch of (normalized) submissions
PricingRequest ==
    \E batch \in Batches :
        \E p \in {PricingSuggestions(memo, cfgCache, doc, batch)} :
        /\ cfgCache' = p.cache
        /\ memo' = p.memo
        /\ lastOp' = [op |-> "price", ok |-> p.ok, cfg |-> p.cfg, read |-> p.read,
                      batch |-> batch, out |-> p.out]
        /\ prevResp' = RespOf(lastOp)
        /\ UNCHANGED <<doc, pin, rl, rd, rdView, calc>>

Next == EditDocument \/ GetConfig \/ Reload \/ PricingRequest

Spec == Init /\ [][Next]_vars

-----------------------------------------------------------------------------
(* Claims on the store and the memo, under Spec *)

\* C1: after a reload that failed while configuration C was cached, every later
\* get_config() still returns C, and returns it without reading the document.
FailedReloadKeepsCache ==
    (pin.state = "failed" /\ pin.cfg # NoConfig /\ lastOp.op = "get")
        => (lastOp.ok /\ lastOp.cfg = pin.cfg /\ ~lastOp.read)

\* C2: every (rate, adjustments) a pricing response carries is what the pricing
\* rule computes from the configuration get_config returns at that request.
MemoServesCurrentConfig ==
    (lastOp.op = "price" /\ lastOp.ok)
        => \A i \in 1..Len(lastOp.batch) :
               /\ lastOp.out[i].suggested_rate_bps
                      = SuggestRateRule(lastOp.cfg, lastOp.batch[i]).rate
               /\ lastOp.out[i].adjustments
                      = SuggestRateRule(lastOp.cfg, lastOp.batch[i]).adjustments

\* C3: two pricing requests with the identical batch, answered under the same
\* configuration version, return identical suggestions in the same order.
IdenticalRequestsAgree ==
    (/\ lastOp.op = "price" /\ lastOp.ok
     /\ prevResp # NoResp
     /\ prevResp.batch = lastOp.batch
     /\ prevResp.version = lastOp.cfg.version)
        => prevResp.out = lastOp.out

\* C4: once reload() has returned configuration C, every get_config() until the
\* next reload returns exactly C, whatever happens to the document meanwhile.
ReloadedConfigStaysUntilNextReload ==
    (pin.state = "ok" /\ lastOp.op = "get")
        => (lastOp.ok /\ lastOp.cfg = pin.cfg)

\* C6: every suggested rate lies within the bounds of the configuration the
\* request was answered under.
SuggestedRateWithinBounds ==
    (lastOp.op = "price" /\ lastOp.ok)
        => \A i \in 1..Len(lastOp.out) :
               /\ lastOp.cfg.pricing_bounds.min_rate <= lastOp.out[i].suggested_rate_bps
               /\ lastOp.out[i].suggested_rate_bps <= lastOp.cfg.pricing_bounds.max_rate

\* a configuration with every required section and a version that has a
\* character other than whitespace
Validated(c) == c.complete /\ \E i \in 1..Len(c.version) : ~IsSpace(c.version[i])

\* C29: every configuration that get_config or reload returns, and every
\* configuration the cache holds, is complete and has a version with a
\* non-whitespace character, so a document with a blank version is neither
\* returned nor cached.
OnlyValidatedConfigurationsServed ==
    /\ (lastOp.op \in {"get", "reload"} /\ lastOp.ok) => Validated(lastOp.cfg)
    /\ \A i \in 1..Len(cfgCache) : Validated(cfgCache[i].val)

BlankVersionRejected ==
    /\ lastOp.op = "reload" /\ lastOp.read /\ ~lastOp.ok
    /\ doc = DocBlankVersion
    /\ pin.state = "failed" /\ pin.cfg # NoConfig
    /\ cfgCache = <<>>

\* C21: all suggestions of one pricing response are what the pricing rule
\* computes from one configuration, the one whose version the response reports.
ResponseFromOneConfiguration ==
    (lastOp.op = "price" /\ lastOp.ok)
        => \E c \in {d \in Documents : ModelValidateOk(d)} :
               /\ c.version = lastOp.cfg.version
               /\ \A i \in 1..Len(lastOp.batch) :
                      lastOp.out[i] = Suggestion(lastOp.batch[i],
                                                 SuggestRateRule(c, lastOp.batch[i]))

\* C21, the weaker half: the suggestions of one response never come from
\* different configurations.
ResponseNeverMixesConfigurations ==
    (lastOp.op = "price" /\ lastOp.ok)
        => \E c \in {d \in Documents : ModelValidateOk(d)} :
               \A i \in 1..Len(lastOp.batch) :
                   lastOp.out[i] = Suggestion(lastOp.batch[i],
                                              SuggestRateRule(c, lastOp.batch[i]))

\* C22: as long as nothing has reloaded the configuration, every (rate,
\* adjustments) a pricing response carries equals the pricing rule evaluated
\* directly on the submission, whatever the memo holds or has evicted.
MemoUnobservableWithoutReload ==
    (lastOp.op = "price" /\ lastOp.ok /\ pin.state = "none")
        => \A i \in 1..Len(lastOp.batch) :
               [rate |-> lastOp.out[i].suggested_rate_bps,
                adjustments |-> lastOp.out[i].adjustments]
                   = SuggestRateRule(lastOp.cfg, lastOp.batch[i])

\* without a reload, a request was answered from the memo after an eviction,
\* while the document on disk had already changed
MemoHitAfterEviction ==
    /\ lastOp.op = "price" /\ lastOp.ok /\ pin.state = "none"
    /\ prevResp # NoResp
    /\ prevResp.batch = <<SubS1, SubS2>>
    /\ lastOp.batch = <<SubS2>>
    /\ doc # lastOp.cfg

-----------------------------------------------------------------------------
(* Readers concurrent with a reload.  reload_weights is two statements,     *)
(* cache_clear() and get_weights_config(path); a cache miss of a reader is  *)
(* a lookup followed by the load.  Each lru_cache operation is atomic.  The *)
(* document is not rewritten while a call is in flight.                     *)

ConcInit == StoreInit /\ ThreadsIdle /\ RuleIdle

InReload == rl.pc # "idle"

\* what the reader's call returned, with the configuration cached before the
\* reload it overlapped and the one that reload validates
ViewOf(overlap, ok, cfg) ==
    [done |-> TRUE, overlap |-> overlap, ok |-> ok, cfg |-> cfg, old |-> rl.old,
     new |-> IF ModelValidateOk(doc) THEN doc ELSE NoConfig]

ConcEdit ==
    /\ rl.pc = "idle" /\ rd.pc = "idle"
    /\ \E d \in Documents \ {doc} : doc' = d
    /\ UNCHANGED <<cfgCache, memo, lastOp, pin, prevResp, rl, rd, rdView, calc>>

\* reload_weights, first statement: get_weights_config.cache_clear()
ReloadClear ==
    /\ rl.pc = "idle"
    /\ rl' = [pc |-> "cleared", old |-> Cached(cfgCache)]
    /\ cfgCache' = CacheClear(cfgCache)
    /\ rd' = IF rd.pc = "missed" THEN [rd EXCEPT !.overlap = TRUE] ELSE rd
    /\ UNCHANGED <<doc, memo, lastOp, pin, prevResp, rdView, calc>>

\* reload_weights, second statement: return get_weights_config(path)
ReloadLoad ==
    /\ rl.pc = "cleared"
    /\ \E g \in {GetWeightsConfig(cfgCache, doc, KeyNone)} :
       /\ cfgCache' = g.cache
       /\ pin' = IF g.ok THEN [state |-> "ok", cfg |-> g.cfg]
                 ELSE [state |-> "failed", cfg |-> rl.old]
    /\ rl' = [rl EXCEPT !.pc = "idle"]
    /\ UNCHANGED <<doc, memo, lastOp, prevResp, rd, rdView, calc>>

\* a reader calls get_weights_config(): the cache lookup
ReaderLookup ==
    /\ rd.pc = "idle"
    /\ LET i == LruIndex(cfgCache, KeyNoArgs) IN
       IF i # 0
       THEN /\ rdView' = ViewOf(InReload, TRUE, cfgCache[i].val)
            /\ cfgCache' = LruTouch(cfgCache, i)
            /\ rd' = rd
       ELSE /\ rd' = [pc |-> "missed", overlap |-> InReload]
            /\ UNCHANGED <<cfgCache, rdView>>
    /\ UNCHANGED <<doc, memo, lastOp, pin, prevResp, rl, calc>>

\* the reader's miss: load and validate the document, store, return
ReaderLoad ==
    /\ rd.pc = "missed"
    /\ \E g \in {LoadAndStore(cfgCache, doc, KeyNoArgs)} :
       /\ cfgCache' = g.cache
       /\ rdView' = ViewOf(rd.overlap \/ InReload, g.ok, g.cfg)
    /\ rd' = [pc |-> "idle", overlap |-> FALSE]
    /\ UNCHANGED <<doc, memo, lastOp, pin, prevResp, rl, calc>>

ConcNext == ConcEdit \/ ReloadClear \/ ReloadLoad \/ ReaderLookup \/ ReaderLoad

SpecConc == ConcInit /\ [][ConcNext]_vars

\* C5: a get_config() that overlaps a reload returns the configuration cached
\* before the reload or the one the reload validates, and nothing else (when
\* there is at least one of the two to return).
ReaderSeesOldOrNew ==
    (rdView.done /\ rdView.overlap /\ (rdView.old # NoConfig \/ rdView.new # NoConfig))
        => (rdView.ok /\ (rdView.cfg = rdView.old \/ rdView.cfg = rdView.new))

-----------------------------------------------------------------------------
(* The pricing rule under one configuration: a fresh process prices a       *)
(* submission and then a second one that differs from it in one field.      *)
(* Nothing reloads and nothing rewrites the document.                       *)

\* Valid documents: signed and zero adjustments, wide and narrow bounds, and
\* bounds with min_rate above max_rate (validation does not compare them).
DocNegative ==
    [DocA EXCEPT !.version = <<"v", "3">>,
                 !.pricing_adjustments.has_judgements = -40,
                 !.pricing_adjustments.debtor_days = -25,
                 !.pricing_adjustments.limited_trading = 0]

DocInverted ==
    [DocA EXCEPT !.version = <<"v", "4">>,
                 !.pricing_bounds = [min_rate |-> 300, max_rate |-> 250]]

RuleDocuments == {DocA, DocB, DocNegative, DocInverted}

RuleDebtorDays == {60, 61, 150}

RuleSubmissions ==
    [submission_id : {"r1"}, sector : Sectors, exposure_limit : {750},
     debtor_days : RuleDebtorDays, financials_attached : {0, 1},
     years_trading : {1, 5}, broker_hit_rate : {30, 50},
     requested_cov_pct : {75, 95}, has_judgements : {0, 1}]

RuleInit ==
    /\ doc \in RuleDocuments
    /\ FreshProcess
    /\ ThreadsIdle
    /\ calc = [kind |-> "price", n |-> 0]

\* POST /pricing/suggest with the one-record batch <<sub>>, as the n-th request
PriceOne(sub, first, twin) ==
    \E p \in {PricingSuggestions(memo, cfgCache, doc, <<sub>>)} :
    /\ p.ok
    /\ cfgCache' = p.cache
    /\ memo' = p.memo
    /\ calc' = IF first
               THEN [kind |-> "price", n |-> 1, twin |-> "none", cfg |-> p.cfg,
                     sub |-> sub, out |-> p.out[1], sub2 |-> sub, out2 |-> p.out[1]]
               ELSE [calc EXCEPT !.n = 2, !.twin = twin, !.sub2 = sub, !.out2 = p.out[1]]
    /\ UNCHANGED <<doc, lastOp, pin, prevResp, rl, rd, rdView>>

PriceFirst ==
    /\ calc.n = 0
    /\ \E sub \in RuleSubmissions : PriceOne(sub, TRUE, "none")

\* the same submission with has_judgements flipped
PriceJudgementsTwin ==
    /\ calc.n = 1
    /\ PriceOne([calc.sub EXCEPT !.has_judgements = 1 - @], FALSE, "judgements")

\* the same submission with other debtor days
PriceDebtorDaysTwin ==
    /\ calc.n = 1
    /\ \E d \in RuleDebtorDays \ {calc.sub.debtor_days} :
           PriceOne([calc.sub EXCEPT !.debtor_days = d], FALSE, "debtor_days")

RuleNext == PriceFirst \/ PriceJudgementsTwin \/ PriceDebtorDaysTwin

SpecRule == RuleInit /\ [][RuleNext]_vars

\* the request and its twin, ordered: with/without judgements, high/low debtor days
Priced(twin) == calc.kind = "price" /\ calc.n = 2 /\ calc.twin = twin

WithJ == IF Truthy(calc.sub.has_judgements) THEN calc.out ELSE calc.out2
WithoutJ == IF Truthy(calc.sub.has_judgements) THEN calc.out2 ELSE calc.out

Unclamped(cfg, sub) ==
    /\ cfg.pricing_bounds.min_rate <= PreClampRate(cfg, sub)
    /\ PreClampRate(cfg, sub) <= cfg.pricing_bounds.max_rate

\* C9 as claimed: the rate with has_judgements=true is the rate with
\* has_judgements=false plus exactly adj.has_judgements, for every such pair.
JudgementsAddExactly ==
    Priced("judgements")
        => WithJ.suggested_rate_bps
               = WithoutJ.suggested_rate_bps + calc.cfg.pricing_adjustments.has_judgements

\* C9 amended: for two submissions that differ only in has_judgements, priced
\* by the rule from one configuration, the rate with has_judgements=true is the
\* rate with has_judgements=false plus exactly adj.has_judgements whenever
\* clamping changes neither rate (both pre-clamp rates lie within the bounds).
JudgementsAddExactlyUnclamped ==
    (/\ Priced("judgements")
     /\ Unclamped(calc.cfg, calc.sub)
     /\ Unclamped(calc.cfg, calc.sub2))
        => WithJ.suggested_rate_bps
               = WithoutJ.suggested_rate_bps + calc.cfg.pricing_adjustments.has_judgements

\* a pair priced without clamping whose rates differ by a non-zero adj.has_judgements
JudgementsPairPriced ==
    /\ Priced("judgements")
    /\ Unclamped(calc.cfg, calc.sub)
    /\ Unclamped(calc.cfg, calc.sub2)
    /\ calc.cfg.pricing_adjustments.has_judgements # 0
    /\ WithJ.suggested_rate_bps # WithoutJ.suggested_rate_bps

\* the pair is one above thresholds.debtor_days_max and one at or below it
Straddles ==
    LET m == calc.cfg.thresholds.debtor_days_max IN
    \/ calc.sub.debtor_days > m /\ calc.sub2.debtor_days <= m
    \/ calc.sub2.debtor_days > m /\ calc.sub.debtor_days <= m

HighDays ==
    IF calc.sub.debtor_days > calc.cfg.thresholds.debtor_days_max
    THEN calc.out ELSE calc.out2
LowDays ==
    IF calc.sub.debtor_days > calc.cfg.thresholds.debtor_days_max
    THEN calc.out2 ELSE calc.out

\* C10 as claimed: the rate of the submission at or below debtor_days_max is the
\* rate of the one above it minus exactly adj.debtor_days, for every such pair.
DebtorDaysSubtractExactly ==
    (Priced("debtor_days") /\ Straddles)
        => LowDays.suggested_rate_bps
               = HighDays.suggested_rate_bps - calc.cfg.pricing_adjustments.debtor_days

\* C10 amended: the same, for pairs priced by the rule from one configuration
\* whose rates clamping does not change.
DebtorDaysSubtractExactlyUnclamped ==
    (/\ Priced("debtor_days") /\ Straddles
     /\ Unclamped(calc.cfg, calc.sub)
     /\ Unclamped(calc.cfg, calc.sub2))
        => LowDays.suggested_rate_bps
               = HighDays.suggested_rate_bps - calc.cfg.pricing_adjustments.debtor_days

\* a straddling pair priced without clamping, the lower one cheaper
DebtorDaysPairPriced ==
    /\ Priced("debtor_days") /\ Straddles
    /\ Unclamped(calc.cfg, calc.sub)
    /\ Unclamped(calc.cfg, calc.sub2)
    /\ LowDays.suggested_rate_bps < HighDays.suggested_rate_bps

-----------------------------------------------------------------------------
(* Float64 arithmetic of the score formulas (polars Series and Python       *)
(* floats).  A finite value is an exact fraction n/d, d > 0, in lowest      *)
(* terms; division by zero and its consequences follow IEEE 754: x/0 is an  *)
(* infinity for x # 0 and NaN for x = 0, inf - inf and 0 * inf are NaN, NaN *)
(* propagates and compares false with everything.  Rounding is not modelled.*)

RECURSIVE GCD(_, _)
GCD(a, b) == IF b = 0 THEN a ELSE GCD(b, a % b)

Abs(a) == IF a < 0 THEN -a ELSE a

NaN == [t |-> "nan", n |-> 0, d |-> 1]
Inf(s) == [t |-> "inf", n |-> s, d |-> 1]

\* the fraction n/d, d # 0, in lowest terms with a positive denominator
FinV(n, d) ==
    LET g == GCD(Abs(n), Abs(d))
        sg == IF d < 0 THEN -1 ELSE 1
    IN  [t |-> "fin", n |-> sg * (n \div g), d |-> Abs(d) \div g]

Fin(n0, d0) == CHOOSE r \in {FinV(n, d) : n \in {n0}, d \in {d0}} : TRUE

\* an integer, and a number given in hundredths
Num(k) == [t |-> "fin", n |-> k, d |-> 1]
Hundredths(k) == Fin(k, 100)

Sgn(x) == IF x.n > 0 THEN 1 ELSE IF x.n < 0 THEN -1 ELSE 0

XAddV(x, y) ==
    IF x.t = "nan" \/ y.t = "nan" THEN NaN
    ELSE IF x.t = "inf" /\ y.t = "inf" THEN (IF x.n = y.n THEN x ELSE NaN)
    ELSE IF x.t = "inf" THEN x
    ELSE IF y.t = "inf" THEN y
    ELSE Fin(x.n * y.d + y.n * x.d, x.d * y.d)

XMulV(x, y) ==
    IF x.t = "nan" \/ y.t = "nan" THEN NaN
    ELSE IF x.t = "inf" \/ y.t = "inf"
         THEN (IF Sgn(x) = 0 \/ Sgn(y) = 0 THEN NaN ELSE Inf(Sgn(x) * Sgn(y)))
         ELSE Fin(x.n * y.n, x.d * y.d)

XDivV(x, y) ==
    IF x.t = "nan" \/ y.t = "nan" THEN NaN
    ELSE IF y.t = "inf" THEN (IF x.t = "inf" THEN NaN ELSE Num(0))
    ELSE IF y.n = 0 THEN (IF Sgn(x) = 0 THEN NaN ELSE Inf(Sgn(x)))
    ELSE IF x.t = "inf" THEN Inf(Sgn(x) * Sgn(y))
    ELSE Fin(x.n * y.d, x.d * y.n)

XNegV(x) == IF x.t = "nan" THEN NaN ELSE [x EXCEPT !.n = -x.n]

XLtV(x, y) ==
    IF x.t = "nan" \/ y.t = "nan" THEN FALSE
    ELSE IF x.t = "inf" THEN x.n < 0 /\ ~(y.t = "inf" /\ y.n < 0)
    ELSE IF y.t = "inf" THEN y.n > 0
    ELSE x.n * y.d < y.n * x.d

\* the operations on values: each argument is evaluated once
XAdd(x0, y0) == CHOOSE r \in {XAddV(x, y) : x \in {x0}, y \in {y0}} : TRUE
XMul(x0, y0) == CHOOSE r \in {XMulV(x, y) : x \in {x0}, y \in {y0}} : TRUE
XDiv(x0, y0) == CHOOSE r \in {XDivV(x, y) : x \in {x0}, y \in {y0}} : TRUE
XNeg(x0) == CHOOSE r \in {XNegV(x) : x \in {x0}} : TRUE
XSub(x0, y0) == XAdd(x0, XNeg(y0))
XLt(x0, y0) == \E x \in {x0}, y \in {y0} : XLtV(x, y)
XLe(x0, y0) == \E x \in {x0}, y \in {y0} : XLtV(x, y) \/ (x.t # "nan" /\ x = y)

\* Series.clip(lo, hi): below lo gives lo, above hi gives hi, NaN stays NaN
XClipV(x, lo, hi) == IF XLtV(x, lo) THEN lo ELSE IF XLtV(hi, x) THEN hi ELSE x
XClip(x0, lo0, hi0) ==
    CHOOSE r \in {XClipV(x, lo, hi) : x \in {x0}, lo \in {lo0}, hi \in {hi0}} : TRUE

\* the value lies in [0, 1]
InUnitInterval(x) == x.t = "fin" /\ 0 <= x.n /\ x.n <= x.d

-----------------------------------------------------------------------------
(* Triage scoring: app/service.py, triage_scores *)

SeqMax(s) == CHOOSE m \in Range(s) : \A v \in Range(s) : v <= m
SeqMin(s) == CHOOSE m \in Range(s) : \A v \in Range(s) : m <= v

\* a faulty variant of the sum: judgements add their weight instead of losing it
TriageSumJudgementsAdded(cfg, row, min_exposure, exposure_range) ==
    LET w == cfg.triage_weights
        t == cfg.thresholds
    IN  XAdd(XAdd(XAdd(XAdd(XAdd(
            XMul(Hundredths(w.exposure_limit),
                 XDiv(Num(row.exposure_limit - min_exposure), Num(exposure_range))),
            XMul(Hundredths(w.debtor_days),
                 XSub(Num(1), XDiv(Num(row.debtor_days),
                                   Num(t.debtor_days_normalization))))),
            XMul(Hundredths(w.financials_attached), Num(row.financials_attached))),
            XMul(Hundredths(w.years_trading),
                 XDiv(Num(row.years_trading), Num(t.years_trading_normalization)))),
            XMul(Hundredths(w.broker_hit_rate), Hundredths(row.broker_hit_rate))),
            XMul(Hundredths(w.has_judgements), Num(row.has_judgements)))

\* the weighted sum of one row (service.py:32-44)
TriageSum(cfg, row, min_exposure, exposure_range) ==
    LET w == cfg.triage_weights
        t == cfg.thresholds
    IN  XAdd(XAdd(XAdd(XAdd(XAdd(
            XMul(Hundredths(w.exposure_limit),
                 XDiv(Num(row.exposure_limit - min_exposure), Num(exposure_range))),
            XMul(Hundredths(w.debtor_days),
                 XSub(Num(1), XDiv(Num(row.debtor_days),
                                   Num(t.debtor_days_normalization))))),
            XMul(Hundredths(w.financials_attached), Num(row.financials_attached))),
            XMul(Hundredths(w.years_trading),
                 XDiv(Num(row.years_trading), Num(t.years_trading_normalization)))),
            XMul(Hundredths(w.broker_hit_rate), Hundredths(row.broker_hit_rate))),
            XMul(Hundredths(w.has_judgements), XSub(Num(1), Num(row.has_judgements))))

\* a faulty variant of the reasons: the long-debtor-days warning from 120 on (>= for >)
TriageReasonsLongFrom120(row) ==
    (IF Truthy(row.financials_attached) THEN <<"Financial statements provided">> ELSE <<>>)
 \o (IF row.broker_hit_rate >= 50 THEN <<"Good broker quality track record">> ELSE <<>>)
 \o (IF row.debtor_days <= 60 THEN <<"Short debtor days">>
     ELSE IF row.debtor_days >= 120 THEN <<"Long debtor days warning">> ELSE <<>>)
 \o (IF Truthy(row.has_judgements) THEN <<"Outstanding judgements warning">> ELSE <<>>)
 \o (IF row.years_trading < 2 THEN <<"Limited trading history">>
     ELSE IF row.years_trading >= 10 THEN <<"Established trading history">> ELSE <<>>)

\* the reasons of one row, in the order of the checks (service.py:52-72)
TriageReasons(row) ==
    (IF Truthy(row.financials_attached) THEN <<"Financial statements provided">> ELSE <<>>)
 \o (IF row.broker_hit_rate >= 50 THEN <<"Good broker quality track record">> ELSE <<>>)
 \o (IF row.debtor_days <= 60 THEN <<"Short debtor days">>
     ELSE IF row.debtor_days > 120 THEN <<"Long debtor days warning">> ELSE <<>>)
 \o (IF Truthy(row.has_judgements) THEN <<"Outstanding judgements warning">> ELSE <<>>)
 \o (IF row.years_trading < 2 THEN <<"Limited trading history">>
     ELSE IF row.years_trading >= 10 THEN <<"Established trading history">> ELSE <<>>)

\* a faulty variant of triage_scores: the exposure range taken without the guard
TriageScoresUnguarded(cache, document, rows) ==
    LET g == GetWeightsConfig(cache, document, KeyNoArgs) IN
    IF ~g.ok
    THEN [ok |-> FALSE, cfg |-> NoConfig, scores |-> <<>>, cache |-> g.cache]
    ELSE LET exposures == [i \in 1..Len(rows) |-> rows[i].exposure_limit]
             max_exposure == SeqMax(exposures)
             min_exposure == SeqMin(exposures)
             exposure_range == max_exposure - min_exposure
         IN  [ok |-> TRUE, cfg |-> g.cfg, cache |-> g.cache,
              scores |->
                [i \in 1..Len(rows) |->
                    [id |-> rows[i].submission_id,
                     score |-> XClip(TriageSum(g.cfg, rows[i], min_exposure,
                                               exposure_range), Num(0), Num(1)),
                     reasons |-> TriageReasons(rows[i])]]]

\* triage_scores(df) for a non-empty batch: [ok, cfg, scores, cache]
TriageScores(cache, document, rows) ==
    LET g == GetWeightsConfig(cache, document, KeyNoArgs) IN
    IF ~g.ok
    THEN [ok |-> FALSE, cfg |-> NoConfig, scores |-> <<>>, cache |-> g.cache]
    ELSE LET exposures == [i \in 1..Len(rows) |-> rows[i].exposure_limit]
             max_exposure == SeqMax(exposures)
             min_exposure == SeqMin(exposures)
             exposure_range == IF max_exposure > min_exposure
                               THEN max_exposure - min_exposure ELSE 1
         IN  [ok |-> TRUE, cfg |-> g.cfg, cache |-> g.cache,
              scores |->
                [i \in 1..Len(rows) |->
                    [id |-> rows[i].submission_id,
                     score |-> XClip(TriageSum(g.cfg, rows[i], min_exposure,
                                               exposure_range), Num(0), Num(1)),
                     reasons |-> TriageReasons(rows[i])]]]

\* Valid documents: a zero normalization divisor, and weights of either sign
\* whose sum leaves [0, 1] (validation checks types only).
DocZeroNorm ==
    [DocA EXCEPT !.version = <<"v", "5">>,
                 !.thresholds.debtor_days_normalization = 0]

DocHeavy ==
    [DocA EXCEPT !.version = <<"v", "6">>,
                 !.triage_weights.exposure_limit = 150,
                 !.triage_weights.has_judgements = -80,
                 !.triage_weights.debtor_days = -40]

\* positive weights whose sum exceeds 1
DocLarge ==
    [DocA EXCEPT !.version = <<"v", "7">>,
                 !.triage_weights.financials_attached = 150]

\* the exposure term alone: every other weight is zero
DocExposureOnly ==
    [DocA EXCEPT !.version = <<"v", "8">>,
                 !.triage_weights = [exposure_limit |-> 100, debtor_days |-> 0,
                                     financials_attached |-> 0, years_trading |-> 0,
                                     broker_hit_rate |-> 0, has_judgements |-> 0]]

TriageDocuments == {DocA, DocZeroNorm, DocHeavy, DocLarge, DocExposureOnly}

TriageSubmissions ==
    [submission_id : {"t1"}, sector : {"Retail"}, exposure_limit : {0, 1000},
     debtor_days : {0, 90, 400}, financials_attached : {0, 1},
     years_trading : {1, 30}, broker_hit_rate : {60},
     requested_cov_pct : {80}, has_judgements : {0, 1}]

TriagePeers ==
    {[SubS1 EXCEPT !.submission_id = "p1", !.exposure_limit = 250],
     [SubS1 EXCEPT !.submission_id = "p2", !.exposure_limit = 1000, !.debtor_days = 0]}

\* records on both sides of every threshold of the reason checks
ReasonSubmissions ==
    [submission_id : {"t2"}, sector : {"Retail"}, exposure_limit : {500},
     debtor_days : {60, 61, 120, 121}, financials_attached : {1},
     years_trading : {1, 2, 9, 10}, broker_hit_rate : {49, 50},
     requested_cov_pct : {80}, has_judgements : {0}]

\* three-record batches with three different exposures
TriageTrios ==
    {<<a, b, c>> : a \in {x \in TriageSubmissions :
                              /\ x.exposure_limit = 0 /\ x.debtor_days = 90
                              /\ x.years_trading = 1 /\ x.financials_attached = 1},
                  b \in {x \in TriagePeers : x.exposure_limit = 250},
                  c \in {x \in TriagePeers : x.exposure_limit = 1000}}

TriageBatches ==
    {<<a>> : a \in TriageSubmissions \cup ReasonSubmissions}
        \cup {<<a, b>> : a \in TriageSubmissions, b \in TriagePeers}
        \cup TriageTrios

TriageInit ==
    /\ doc \in TriageDocuments
    /\ FreshProcess
    /\ ThreadsIdle
    /\ calc = [kind |-> "triage", n |-> 0]

\* prepare_submissions_features (features.py:21-33): the flags become 0/1 and
\* debtor_days and years_trading are clipped to [0, 180] and [0, 30]
PrepareSubmissionsFeatures(rows) ==
    [i \in 1..Len(rows) |->
        [rows[i] EXCEPT !.debtor_days = Max2(0, Min2(180, @)),
                        !.years_trading = Max2(0, Min2(30, @))]]

\* the model's weighted sum for a single-record batch, before the final clip
SingleRecordSum(cfg, batch) ==
    LET row == PrepareSubmissionsFeatures(batch)[1]
    IN  TriageSum(cfg, row, row.exposure_limit, 1)

\* POST /triage/underwriting with a non-empty batch of valid submissions
TriageRequest ==
    \E batch \in TriageBatches :
        \E r \in {TriageScores(cfgCache, doc, PrepareSubmissionsFeatures(batch))} :
            /\ r.ok
            /\ cfgCache' = r.cache
            /\ calc' = [kind |-> "triage", n |-> 1, cfg |-> r.cfg, batch |-> batch,
                        scores |-> r.scores]
            /\ UNCHANGED <<doc, memo, lastOp, pin, prevResp, rl, rd, rdView>>

\* the same single-record request with has_judgements flipped
TriageJudgementsTwin ==
    /\ calc.kind = "triage" /\ calc.n = 1 /\ Len(calc.batch) = 1
    /\ \E twin \in {<<[calc.batch[1] EXCEPT !.has_judgements = 1 - @]>>} :
        \E r \in {TriageScores(cfgCache, doc, PrepareSubmissionsFeatures(twin))} :
            /\ r.ok
            /\ cfgCache' = r.cache
            /\ calc' = [kind |-> "triage", n |-> 2, cfg |-> calc.cfg,
                        batch |-> calc.batch, scores |-> calc.scores,
                        twinCfg |-> r.cfg, twin |-> twin, twinScores |-> r.scores]
            /\ UNCHANGED <<doc, memo, lastOp, pin, prevResp, rl, rd, rdView>>

TriageNext == TriageRequest \/ TriageJudgementsTwin

SpecTriage == TriageInit /\ [][TriageNext]_vars

\* C7: for a non-empty batch and a validated configuration, every score that
\* triage_scores returns lies in [0, 1].
TriageScoreInUnitInterval ==
    (calc.kind = "triage" /\ calc.n = 1)
        => \A i \in 1..Len(calc.scores) : InUnitInterval(calc.scores[i].score)

\* a single-record request and its has_judgements twin have both been scored
JudgementsTwinScored == calc.kind = "triage" /\ calc.n = 2

ScoreWithJ ==
    IF Truthy(calc.batch[1].has_judgements)
    THEN calc.scores[1].score ELSE calc.twinScores[1].score

ScoreWithoutJ ==
    IF Truthy(calc.batch[1].has_judgements)
    THEN calc.twinScores[1].score ELSE calc.scores[1].score

-----------------------------------------------------------------------------
(* Renewal priorities: app/service.py, renewals_priority *)

\* prepare_policies_features (features.py:49-54)
PreparePoliciesFeatures(rows) ==
    [i \in 1..Len(rows) |->
        [rows[i] EXCEPT !.utilization_pct = Max2(0, Min2(100, @)),
                        !.claims_ratio_24m = Max2(0, Min2(500, @)),
                        !.days_to_expiry = Max2(0, Min2(365, @))]]

\* thresholds[name]: Thresholds is a pydantic BaseModel, which defines no
\* __getitem__, so subscripting an instance raises TypeError for every name.
ThresholdsGetItem(thresholds, name) == [ok |-> FALSE, error |-> "TypeError"]

\* the weighted sum of one row (service.py:105-114)
RenewalSum(cfg, row, change_pct_clipped) ==
    LET w == cfg.renewals_weights
        t == cfg.thresholds
    IN  XAdd(XAdd(XAdd(
            XMul(Hundredths(w.days_to_expiry),
                 XSub(Num(1), XDiv(Num(row.days_to_expiry), Num(365)))),
            XMul(Hundredths(w.utilization_pct), Hundredths(row.utilization_pct))),
            XMul(Hundredths(w.claims_ratio_24m),
                 XDiv(XClip(Hundredths(row.claims_ratio_24m), Num(0),
                            Hundredths(t.claims_ratio_max)),
                      Hundredths(t.claims_ratio_max)))),
            XMul(Hundredths(w.requested_change_pct), XNeg(change_pct_clipped)))

\* the reasons of one row, in the order of the checks (service.py:122-143)
RenewalReasons(row) ==
    (IF row.days_to_expiry <= 30 THEN <<"Expiring within 30 days">>
     ELSE IF row.days_to_expiry <= 90 THEN <<"Expiring soon">> ELSE <<>>)
 \o (IF row.utilization_pct >= 80 THEN <<"High utilization">>
     ELSE IF row.utilization_pct <= 30 THEN <<"Low utilization">> ELSE <<>>)
 \o (IF row.claims_ratio_24m >= 150 THEN <<"Elevated loss ratio">>
     ELSE IF row.claims_ratio_24m <= 50 THEN <<"Low loss ratio">> ELSE <<>>)
 \o (IF row.requested_change_pct < -10
     THEN <<"Client requesting significant reduction">>
     ELSE IF row.requested_change_pct > 10
          THEN <<"Client requesting increase">> ELSE <<>>)

\* renewals_priority(df): [ok, error, cfg, scores, cache]
RenewalsPriority(cache, document, rows) ==
    LET g == GetWeightsConfig(cache, document, KeyNoArgs) IN
    IF ~g.ok
    THEN [ok |-> FALSE, error |-> "config", cfg |-> NoConfig, scores |-> <<>>,
          cache |-> g.cache]
    ELSE LET lo == ThresholdsGetItem(g.cfg.thresholds, "change_pct_min")
             hi == ThresholdsGetItem(g.cfg.thresholds, "change_pct_max")
         IN  IF ~lo.ok
             THEN [ok |-> FALSE, error |-> lo.error, cfg |-> g.cfg,
                   scores |-> <<>>, cache |-> g.cache]
             ELSE IF ~hi.ok
             THEN [ok |-> FALSE, error |-> hi.error, cfg |-> g.cfg,
                   scores |-> <<>>, cache |-> g.cache]
             ELSE [ok |-> TRUE, error |-> "", cfg |-> g.cfg, cache |-> g.cache,
                   scores |->
                     [i \in 1..Len(rows) |->
                        [id |-> rows[i].policy_id,
                         score |-> XClip(RenewalSum(g.cfg, rows[i],
                                             XClip(Hundredths(rows[i].requested_change_pct),
                                                   Hundredths(lo.val), Hundredths(hi.val))),
                                         Num(0), Num(1)),
                         reasons |-> RenewalReasons(rows[i])]]]

Policies ==
    [policy_id : {"r1"}, sector : {"Retail"}, utilization_pct : {20, 85},
     claims_ratio_24m : {20, 160}, days_to_expiry : {20, 60, 200},
     requested_change_pct : {-15, 0, 15}]

PolicyPeer ==
    [policy_id |-> "r2", sector |-> "Services", utilization_pct |-> 50,
     claims_ratio_24m |-> 100, days_to_expiry |-> 365, requested_change_pct |-> 5]

PolicyBatches ==
    {<<a>> : a \in Policies} \cup {<<a, PolicyPeer>> : a \in Policies}
        \cup {<<PolicyPeer, a>> : a \in Policies}

RenewalsDocuments == {DocA, DocB}

RenewalsInit ==
    /\ doc \in RenewalsDocuments
    /\ FreshProcess
    /\ ThreadsIdle
    /\ calc = [kind |-> "renewals", n |-> 0]

\* POST /renewals/priority with a non-empty batch of valid policies
RenewalsRequest ==
    \E batch \in PolicyBatches :
        \E r \in {RenewalsPriority(cfgCache, doc, PreparePoliciesFeatures(batch))} :
            /\ cfgCache' = r.cache
            /\ calc' = [kind |-> "renewals", n |-> 1, batch |-> batch,
                        ok |-> r.ok, error |-> r.error, scores |-> r.scores]
            /\ UNCHANGED <<doc, memo, lastOp, pin, prevResp, rl, rd, rdView>>

RenewalsNext == RenewalsRequest

SpecRenewals == RenewalsInit /\ [][RenewalsNext]_vars

\* C8: for a non-empty batch of valid policies renewals_priority completes
\* without error and returns one result per policy, in input order, each with
\* the policy's policy_id as id and a score in [0, 1].
RenewalsPriorityScoresEveryPolicy ==
    (calc.kind = "renewals" /\ calc.n = 1)
        => /\ calc.ok
           /\ Len(calc.scores) = Len(calc.batch)
           /\ \A i \in 1..Len(calc.batch) :
                /\ calc.scores[i].id = calc.batch[i].policy_id
                /\ InUnitInterval(calc.scores[i].score)

-----------------------------------------------------------------------------
(* CSV ingestion: app/api/common.py and the upload handlers of app/main.py. *)
(* A cell is a string, written as a sequence of characters.  Numbers are    *)
(* carried in hundredths.                                                   *)

UpperToLower ==
    [c \in {"A", "C", "E", "F", "L", "N", "O", "R", "S", "T", "U", "V", "Y"} |->
        CASE c = "A" -> "a" [] c = "C" -> "c" [] c = "E" -> "e" [] c = "F" -> "f"
          [] c = "L" -> "l" [] c = "N" -> "n" [] c = "O" -> "o" [] c = "R" -> "r"
          [] c = "S" -> "s" [] c = "T" -> "t" [] c = "U" -> "u" [] c = "V" -> "v"
          [] c = "Y" -> "y"]

\* str.lower()
LowerV(s) ==
    [i \in 1..Len(s) |-> IF s[i] \in DOMAIN UpperToLower THEN UpperToLower[s[i]] ELSE s[i]]

Lower(s0) == CHOOSE r \in {LowerV(s) : s \in {s0}} : TRUE

\* str.endswith(suffix)
EndsWith(s, suffix) ==
    Len(s) >= Len(suffix) /\ SubSeq(s, Len(s) - Len(suffix) + 1, Len(s)) = suffix

Digits == {"0", "1", "2", "3", "4", "5", "6", "7", "8", "9"}

DigitValue(c) ==
    CASE c = "0" -> 0 [] c = "1" -> 1 [] c = "2" -> 2 [] c = "3" -> 3 [] c = "4" -> 4
      [] c = "5" -> 5 [] c = "6" -> 6 [] c = "7" -> 7 [] c = "8" -> 8 [] c = "9" -> 9

AllDigits(s) == s # <<>> /\ \A i \in 1..Len(s) : s[i] \in Digits

RECURSIVE DigitsValue(_)
DigitsValueV(s) ==
    IF s = <<>> THEN 0 ELSE 10 * DigitsValue(SubSeq(s, 1, Len(s) - 1)) + DigitValue(s[Len(s)])

DigitsValue(s0) == CHOOSE v \in {DigitsValueV(s) : s \in {s0}} : TRUE

ValueError == [ok |-> FALSE, error |-> "ValueError"]

\* a string with its sign taken off: [neg, body]
Unsigned(s) ==
    [neg |-> s # <<>> /\ Head(s) = "-",
     body |-> IF s # <<>> /\ Head(s) \in {"-", "+"} THEN Tail(s) ELSE s]

ParseIntV(u) ==
    IF AllDigits(u.body)
    THEN [ok |-> TRUE, val |-> (IF u.neg THEN -100 ELSE 100) * DigitsValue(u.body)]
    ELSE ValueError

\* int(value): surrounding whitespace stripped, an optional sign, then digits
\* only; the value is returned in hundredths
ParseInt(value) == CHOOSE r \in {ParseIntV(u) : u \in {Unsigned(Strip(value))}} : TRUE

\* the digits before and after the single point of body
ParseFraction(sg, whole, frac) ==
    IF /\ whole = <<>> \/ AllDigits(whole)
       /\ frac = <<>> \/ AllDigits(frac)
       /\ whole # <<>> \/ frac # <<>>
       /\ Len(frac) <= 2
    THEN [ok |-> TRUE,
          val |-> sg * (100 * DigitsValue(whole)
                        + (IF Len(frac) = 1 THEN 10 ELSE 1) * DigitsValue(frac))]
    ELSE ValueError

ParseFloatV(u) ==
    LET dots == {i \in 1..Len(u.body) : u.body[i] = "."}
        sg == IF u.neg THEN -1 ELSE 1
    IN  IF dots = {}
        THEN (IF AllDigits(u.body)
              THEN [ok |-> TRUE, val |-> sg * 100 * DigitsValue(u.body)]
              ELSE ValueError)
        ELSE IF Cardinality(dots) # 1 THEN ValueError
        ELSE CHOOSE r \in {ParseFraction(sg, SubSeq(u.body, 1, p - 1),
                                         SubSeq(u.body, p + 1, Len(u.body))) :
                              p \in dots} : TRUE

\* float(value) on decimal literals: surrounding whitespace stripped, an
\* optional sign, digits, and an optional point followed by at most two
\* digits (the literals of this model); anything else here is a ValueError.
ParseFloat(value) == CHOOSE r \in {ParseFloatV(u) : u \in {Unsigned(Strip(value))}} : TRUE

TRUE_VALUES == {<<"t", "r", "u", "e">>, <<"1">>, <<"y", "e", "s">>, <<"y">>}
FALSE_VALUES == {<<"f", "a", "l", "s", "e">>, <<"0">>, <<"n", "o">>, <<"n">>}

\* api/common.py parse_bool: value.strip().lower() looked up in TRUE_VALUES
parse_bool(value) ==
    LET lowered == Lower(Strip(value))
    IN  IF lowered \in TRUE_VALUES THEN TRUE
        ELSE IF lowered \in FALSE_VALUES THEN FALSE
        ELSE FALSE

\* main.py convert_submission_row: row[field].lower() in ("true", "1", "yes", "y")
MainBool(value) == Lower(value) \in TRUE_VALUES

SUBMISSION_COLUMNS ==
    {"submission_id", "broker", "sector", "exposure_limit", "debtor_days",
     "financials_attached", "years_trading", "broker_hit_rate",
     "requested_cov_pct", "has_judgements"}

POLICY_COLUMNS ==
    {"policy_id", "sector", "current_premium", "limit", "utilization_pct",
     "claims_last_24m_cnt", "claims_ratio_24m", "days_to_expiry",
     "requested_change_pct", "broker"}

\* a value of a DictReader row: a string, or None for a field the line lacks
None == [some |-> FALSE, s |-> <<>>]
Cell(s) == [some |-> TRUE, s |-> s]

\* csv.DictReader: blank lines are skipped; each other line is zipped with the
\* header, fields beyond the end of a short line are None
DictReader(header, lines) ==
    LET data == SelectSeq(lines, LAMBDA l : l # <<>>)
    IN  [k \in 1..Len(data) |->
            [c \in Range(header) |->
                LET i == CHOOSE j \in 1..Len(header) : header[j] = c
                IN  IF i <= Len(data[k]) THEN Cell(data[k][i]) ELSE None]]

\* validate_csv_columns: the required columns the header lacks
MissingColumns(columns, required_columns) == required_columns \ columns

\* the required-field check shared by the row converters
MissingField(row, columns) ==
    \E field \in columns :
        \/ field \notin DOMAIN row
        \/ ~row[field].some
        \/ Strip(row[field].s) = <<>>

KeyError == [ok |-> FALSE, error |-> "KeyError"]

\* hundredths to whole units (the model's literals for amounts, days and
\* years are whole numbers)
Units(h) == h \div 100

\* the dictionary built by convert_submission_row from parsed fields
SubmissionDict(row, e, d, y, b, r, fin, hj) ==
    IF ~(e.ok /\ d.ok /\ y.ok /\ b.ok /\ r.ok) THEN ValueError
    ELSE [ok |-> TRUE,
          rec |-> [submission_id |-> row["submission_id"].s,
                   broker |-> row["broker"].s,
                   sector |-> row["sector"].s,
                   exposure_limit |-> Units(e.val),
                   debtor_days |-> Units(d.val),
                   financials_attached |-> IF fin THEN 1 ELSE 0,
                   years_trading |-> Units(y.val),
                   broker_hit_rate |-> b.val,
                   requested_cov_pct |-> r.val,
                   has_judgements |-> IF hj THEN 1 ELSE 0]]

\* api/common.py convert_submission_row
ConvertSubmissionRowV(row) ==
    IF MissingField(row, SUBMISSION_COLUMNS) THEN KeyError
    ELSE SubmissionDict(row,
            ParseFloat(row["exposure_limit"].s), ParseFloat(row["debtor_days"].s),
            ParseFloat(row["years_trading"].s), ParseFloat(row["broker_hit_rate"].s),
            ParseFloat(row["requested_cov_pct"].s),
            parse_bool(row["financials_attached"].s),
            parse_bool(row["has_judgements"].s))

\* main.py convert_submission_row
MainConvertSubmissionRowV(row) ==
    IF MissingField(row, SUBMISSION_COLUMNS) THEN KeyError
    ELSE SubmissionDict(row,
            ParseFloat(row["exposure_limit"].s), ParseFloat(row["debtor_days"].s),
            ParseFloat(row["years_trading"].s), ParseFloat(row["broker_hit_rate"].s),
            ParseFloat(row["requested_cov_pct"].s),
            MainBool(row["financials_attached"].s),
            MainBool(row["has_judgements"].s))

\* convert_policy_row (the same in api/common.py and main.py)
ConvertPolicyRowV(row) ==
    IF MissingField(row, POLICY_COLUMNS) THEN KeyError
    ELSE LET p == ParseFloat(row["current_premium"].s)
             l == ParseFloat(row["limit"].s)
             u == ParseFloat(row["utilization_pct"].s)
             n == ParseInt(row["claims_last_24m_cnt"].s)
             c == ParseFloat(row["claims_ratio_24m"].s)
             d == ParseFloat(row["days_to_expiry"].s)
             q == ParseFloat(row["requested_change_pct"].s)
         IN  IF ~(p.ok /\ l.ok /\ u.ok /\ n.ok /\ c.ok /\ d.ok /\ q.ok) THEN ValueError
             ELSE [ok |-> TRUE,
                   rec |-> [policy_id |-> row["policy_id"].s,
                            sector |-> row["sector"].s,
                            current_premium |-> Units(p.val),
                            limit |-> Units(l.val),
                            utilization_pct |-> u.val,
                            claims_last_24m_cnt |-> Units(n.val),
                            claims_ratio_24m |-> c.val,
                            days_to_expiry |-> Units(d.val),
                            requested_change_pct |-> q.val,
                            broker |-> row["broker"].s]]

convert_submission_row(row0) ==
    CHOOSE r \in {ConvertSubmissionRowV(row) : row \in {row0}} : TRUE

MainConvertSubmissionRow(row0) ==
    CHOOSE r \in {MainConvertSubmissionRowV(row) : row \in {row0}} : TRUE

convert_policy_row(row0) ==
    CHOOSE r \in {ConvertPolicyRowV(row) : row \in {row0}} : TRUE

\* the row converter of an upload
RowConverter(file_type, path, row) ==
    IF file_type = "policies" THEN convert_policy_row(row)
    ELSE IF path = "main" THEN MainConvertSubmissionRow(row)
    ELSE convert_submission_row(row)

RequiredColumns(file_type) ==
    IF file_type = "policies" THEN POLICY_COLUMNS ELSE SUBMISSION_COLUMNS

\* the outcome of parsing an upload; attempted is the number of data rows the
\* row converter was called on
Parsed(records) ==
    [ok |-> TRUE, kind |-> "parsed", missing |-> {}, row |-> 0, cause |-> "",
     attempted |-> Len(records), records |-> records]

Rejected(kind, missing, row, cause, attempted) ==
    [ok |-> FALSE, kind |-> kind, missing |-> missing, row |-> row, cause |-> cause,
     attempted |-> attempted, records |-> <<>>]

\* a faulty variant of the loop: a body without data rows is a row error
ConvertedRowsEmptyAsRowError(conv) ==
    LET bad == {k \in 1..Len(conv) : ~conv[k].ok}
    IN  IF bad # {}
        THEN LET k == CHOOSE i \in bad : \A j \in bad : i <= j
             IN  Rejected("row_error", {}, k, conv[k].error, k)
        ELSE IF Len(conv) = 0
        THEN Rejected("row_error", {}, 0, "", 0)
        ELSE Parsed([k \in 1..Len(conv) |-> conv[k].rec])

\* a faulty variant of the loop: every row is converted and the last bad one named
ConvertedRowsLastBad(conv) ==
    LET bad == {k \in 1..Len(conv) : ~conv[k].ok}
    IN  IF bad # {}
        THEN LET k == CHOOSE i \in bad : \A j \in bad : j <= i
             IN  Rejected("row_error", {}, k, conv[k].error, Len(conv))
        ELSE IF Len(conv) = 0
        THEN Rejected("empty", {}, 0, "", 0)
        ELSE Parsed([k \in 1..Len(conv) |-> conv[k].rec])

\* the outcome of the loop given each row's conversion
ConvertedRows(conv) ==
    LET bad == {k \in 1..Len(conv) : ~conv[k].ok}
    IN  IF bad # {}
        THEN LET k == CHOOSE i \in bad : \A j \in bad : i <= j
             IN  Rejected("row_error", {}, k, conv[k].error, k)
        ELSE IF Len(conv) = 0
        THEN Rejected("empty", {}, 0, "", 0)
        ELSE Parsed([k \in 1..Len(conv) |-> conv[k].rec])

\* the conversion loop over the rows of a DictReader: the first row that the
\* converter rejects ends it with "Error parsing row k"
ConvertRows(rows0, file_type, path) ==
    CHOOSE r \in {ConvertedRows([k \in 1..Len(rows) |->
                                    RowConverter(file_type, path, rows[k])]) :
                      rows \in {rows0}} : TRUE

CsvSuffix == <<".", "c", "s", "v">>

\* api/common.py parse_csv_upload
parse_csv_upload(file, required_columns, file_type) ==
    IF file.filename = <<>> \/ ~EndsWith(Lower(file.filename), CsvSuffix)
    THEN Rejected("not_csv", {}, 0, "", 0)
    ELSE IF ~file.hasHeader
    THEN Rejected("empty", {}, 0, "", 0)
    ELSE IF MissingColumns(Range(file.header), required_columns) # {}
    THEN Rejected("missing_columns",
                  MissingColumns(Range(file.header), required_columns), 0, "", 0)
    ELSE ConvertRows(DictReader(file.header, file.lines), file_type, "router")

\* the parsing part of the upload handlers of main.py: the whole body is read
\* into rows first, the columns are checked on the first row's keys
MainParseCsv(file, required_columns, file_type) ==
    IF ~EndsWith(file.filename, CsvSuffix)
    THEN Rejected("not_csv", {}, 0, "", 0)
    ELSE LET csv_rows == IF file.hasHeader THEN DictReader(file.header, file.lines)
                         ELSE <<>>
         IN  IF Len(csv_rows) = 0
             THEN Rejected("empty", {}, 0, "", 0)
             ELSE IF MissingColumns(DOMAIN csv_rows[1], required_columns) # {}
             THEN Rejected("missing_columns",
                           MissingColumns(DOMAIN csv_rows[1], required_columns), 0, "", 0)
             ELSE ConvertRows(csv_rows, file_type, "main")

\* the scoring part of an upload handler: the parsed records go straight to the
\* feature normalizer and the scorer; the response model TriageScore accepts
\* a score only in [0, 1]
ScoreChecked(r) ==
    IF ~r.ok
    THEN [ok |-> FALSE, cache |-> r.cache, scores |-> <<>>,
          error |-> IF r.cfg = NoConfig THEN "config" ELSE "TypeError"]
    ELSE IF \E i \in 1..Len(r.scores) : ~InUnitInterval(r.scores[i].score)
    THEN [ok |-> FALSE, cache |-> r.cache, scores |-> <<>>,
          error |-> "ValidationError"]
    ELSE [ok |-> TRUE, cache |-> r.cache, scores |-> r.scores, error |-> ""]

ScoreRecords(cache, document, file_type, records) ==
    CHOOSE s \in {ScoreChecked(r) : r \in
            {IF file_type = "policies"
             THEN RenewalsPriority(cache, document, PreparePoliciesFeatures(records))
             ELSE TriageScores(cache, document, PrepareSubmissionsFeatures(records))}} :
        TRUE

\* the response of an upload handler.  status: 200, 400 (HTTPException) or 500
\* (an exception that leaves the handler); reached: the records handed to the
\* feature normalizer.  The handlers of main.py catch every Exception, the
\* HTTPExceptions they raised themselves included, and answer 400 with
\* "Error processing CSV file: " before the original text.
CsvResponse(path, p, s) ==
    IF ~p.ok
    THEN [status |-> 400, wrapped |-> path = "main" /\ p.kind # "not_csv",
          parse |-> p, reached |-> <<>>, scores |-> <<>>, error |-> ""]
    ELSE IF ~s.ok
    THEN [status |-> IF path = "main" THEN 400 ELSE 500, wrapped |-> path = "main",
          parse |-> p, reached |-> p.records, scores |-> <<>>, error |-> s.error]
    ELSE [status |-> 200, wrapped |-> FALSE, parse |-> p, reached |-> p.records,
          scores |-> s.scores, error |-> ""]

\* the part of an upload handler after parsing
CsvScored(path, file_type, p, cache, document) ==
    IF ~p.ok
    THEN [resp |-> CsvResponse(path, p, [ok |-> FALSE]), cache |-> cache]
    ELSE CHOOSE h \in {[resp |-> CsvResponse(path, p, s), cache |-> s.cache] :
                          s \in {ScoreRecords(cache, document, file_type, p.records)}} :
            TRUE

\* an upload handler: [resp, cache]
CsvHandler(path, file_type, file, cache, document) ==
    CHOOSE h \in {CsvScored(path, file_type, p, cache, document) : p \in
            {IF path = "main"
             THEN MainParseCsv(file, RequiredColumns(file_type), file_type)
             ELSE parse_csv_upload(file, RequiredColumns(file_type), file_type)}} :
        TRUE

\* Uploads.  A data line is built from a logical row (column -> string) in
\* the order of the header.
LineFor(header, cells) == [i \in 1..Len(header) |-> cells[header[i]]]

SubmissionHeader ==
    <<"submission_id", "broker", "sector", "exposure_limit", "debtor_days",
      "financials_attached", "years_trading", "broker_hit_rate",
      "requested_cov_pct", "has_judgements">>

PolicyHeader ==
    <<"policy_id", "sector", "current_premium", "limit", "utilization_pct",
      "claims_last_24m_cnt", "claims_ratio_24m", "days_to_expiry",
      "requested_change_pct", "broker">>

\* the header without the named columns
HeaderWithout(header, columns) == SelectSeq(header, LAMBDA c : c \notin columns)

SubmissionHeaders ==
    {SubmissionHeader, SubmissionHeader \o <<"notes">>,
     HeaderWithout(SubmissionHeader, {"years_trading"}),
     HeaderWithout(SubmissionHeader, {"years_trading", "financials_attached"})}

PolicyHeaders ==
    {PolicyHeader, HeaderWithout(PolicyHeader, {"utilization_pct", "claims_last_24m_cnt"})}

SubRowGood ==
    [c \in SUBMISSION_COLUMNS \cup {"notes"} |->
        CASE c = "submission_id" -> <<"s", "1">>
          [] c = "sector" -> <<"R", "e", "t", "a", "i", "l">>
          [] c = "exposure_limit" -> <<"5", "0", "0">>
          [] c = "debtor_days" -> <<"9", "0">>
          [] c = "financials_attached" -> <<"T", "R", "U", "E">>
          [] c = "years_trading" -> <<"5">>
          [] c = "broker_hit_rate" -> <<"0", ".", "6">>
          [] c = "requested_cov_pct" -> <<"0", ".", "8">>
          [] c = "has_judgements" -> <<"n", "o">>
          [] OTHER -> <<"x">>]

BoolStrings == {<<"Y">>, <<" ", "y", "e", "s">>, <<"m", "a", "y", "b", "e">>}

SubmissionRows ==
    {SubRowGood}
        \cup {[SubRowGood EXCEPT !["has_judgements"] = b] : b \in BoolStrings}
        \cup {[SubRowGood EXCEPT !["submission_id"] = <<"s", "2">>,
                                 !["exposure_limit"] = <<"9", "0", "0">>],
              [SubRowGood EXCEPT !["debtor_days"] = <<" ">>],
              [SubRowGood EXCEPT !["exposure_limit"] = <<"a", "b", "c">>],
              [SubRowGood EXCEPT !["sector"] = <<"C", "a", "s", "i", "n", "o">>],
              [SubRowGood EXCEPT !["broker_hit_rate"] = <<"2", ".", "5">>]}

PolRowGood ==
    [c \in POLICY_COLUMNS |->
        CASE c = "policy_id" -> <<"r", "1">>
          [] c = "sector" -> <<"R", "e", "t", "a", "i", "l">>
          [] c = "current_premium" -> <<"1", "0", "0">>
          [] c = "limit" -> <<"9", "0", "0">>
          [] c = "utilization_pct" -> <<"0", ".", "8", "5">>
          [] c = "claims_last_24m_cnt" -> <<"2">>
          [] c = "claims_ratio_24m" -> <<"0", ".", "2">>
          [] c = "days_to_expiry" -> <<"2", "0">>
          [] c = "requested_change_pct" -> <<"-", "0", ".", "1", "5">>
          [] OTHER -> <<"b">>]

PolicyRows ==
    {PolRowGood,
     [PolRowGood EXCEPT !["policy_id"] = <<"r", "2">>],
     [PolRowGood EXCEPT !["claims_last_24m_cnt"] = <<"2", ".", "0">>]}

\* the lines a body may hold under a header: the rows, a blank line, and a
\* line that ends one field early
LinesUnder(header, rows, good) ==
    {LineFor(header, cells) : cells \in rows}
        \cup {<<>>, SubSeq(LineFor(header, good), 1, Len(header) - 1)}

MaxDataLines == 2

GoodName == <<"a", ".", "c", "s", "v">>
FileNames == {GoodName, <<"A", ".", "C", "S", "V">>, <<"a", ".", "t", "x", "t">>}

File(filename, hasHeader, header, lines) ==
    [filename |-> filename, hasHeader |-> hasHeader, header |-> header, lines |-> lines]

FilesOf(headers, rows, good) ==
    {File(GoodName, FALSE, <<>>, <<>>)}
        \cup {File(n, TRUE, h, <<LineFor(h, good)>>) : n \in FileNames, h \in headers}
        \cup UNION {{File(GoodName, TRUE, h, ls) :
                        ls \in UNION {[1..k -> LinesUnder(h, rows, good)] :
                                        k \in 0..MaxDataLines}} : h \in headers}

Uploads ==
    {[file_type |-> "submissions", file |-> f] :
        f \in FilesOf(SubmissionHeaders, SubmissionRows, SubRowGood)}
        \cup {[file_type |-> "policies", file |-> f] :
                f \in FilesOf(PolicyHeaders, PolicyRows, PolRowGood)}

CsvInit ==
    /\ doc = DocA
    /\ FreshProcess
    /\ ThreadsIdle
    /\ \E u \in Uploads :
        calc = [kind |-> "csv", phase |-> "received", file_type |-> u.file_type,
                file |-> u.file]

Upload(path, file_type) ==
    /\ calc.kind = "csv" /\ calc.phase = "received" /\ calc.file_type = file_type
    /\ \E h \in {CsvHandler(path, file_type, calc.file, cfgCache, doc)} :
        /\ cfgCache' = h.cache
        /\ calc' = [calc EXCEPT !.phase = "done"] @@ [path |-> path, resp |-> h.resp]
    /\ UNCHANGED <<doc, memo, lastOp, pin, prevResp, rl, rd, rdView>>

\* POST /triage/underwriting/csv and /renewals/priority/csv (app/api)
TriageCsv == Upload("router", "submissions")
RenewalsCsv == Upload("router", "policies")

\* the handlers of the same routes in app/main.py
MainTriageCsv == Upload("main", "submissions")
MainRenewalsCsv == Upload("main", "policies")

CsvNext == TriageCsv \/ RenewalsCsv \/ MainTriageCsv \/ MainRenewalsCsv

SpecCsv == CsvInit /\ [][CsvNext]_vars

CsvDone == calc.kind = "csv" /\ calc.phase = "done"

-----------------------------------------------------------------------------
(* Claims on the upload handlers, under SpecCsv *)

\* the data rows of the upload, as the reader yields them
DataRows == IF calc.file.hasHeader THEN DictReader(calc.file.header, calc.file.lines) ELSE <<>>

IdColumn == IF calc.file_type = "policies" THEN "policy_id" ELSE "submission_id"

HeaderComplete ==
    calc.file.hasHeader
        /\ MissingColumns(Range(calc.file.header), RequiredColumns(calc.file_type)) = {}

\* data rows the converter rejects: a blank or missing required field, or a
\* number that does not parse
BadRows == {k \in 1..Len(DataRows) : ~RowConverter(calc.file_type, calc.path, DataRows[k]).ok}

WellFormed ==
    /\ calc.file.filename = GoodName
    /\ HeaderComplete
    /\ Len(DataRows) >= 1
    /\ BadRows = {}

\* C12: a well-formed upload with N >= 1 data rows is answered with N scored
\* records, the i-th carrying the identifier of the i-th data row.
CsvRoundTrip ==
    (CsvDone /\ WellFormed)
        => /\ calc.resp.status = 200
           /\ Len(calc.resp.scores) = Len(DataRows)
           /\ \A i \in 1..Len(DataRows) :
                calc.resp.scores[i].id = DataRows[i][IdColumn].s

\* C13: an upload whose header lacks a required column is rejected with the
\* missing-columns outcome naming every missing column, and no data row is
\* converted first, whatever the rows are and also when there are none.
MissingColumnsFirst ==
    (/\ CsvDone
     /\ calc.file.filename = GoodName
     /\ calc.file.hasHeader
     /\ ~HeaderComplete)
        => /\ calc.resp.status = 400
           /\ calc.resp.parse.kind = "missing_columns"
           /\ calc.resp.parse.missing
                = MissingColumns(Range(calc.file.header), RequiredColumns(calc.file_type))
           /\ calc.resp.parse.attempted = 0

\* C14: an upload with an empty body, or with a complete header and no data
\* rows, is rejected with the empty-file outcome, not with the missing-columns
\* outcome or a row error.
EmptyFileRejected ==
    (/\ CsvDone
     /\ calc.file.filename = GoodName
     /\ ~calc.file.hasHeader \/ (HeaderComplete /\ Len(DataRows) = 0))
        => /\ calc.resp.status = 400
           /\ calc.resp.parse.kind = "empty"
           /\ calc.resp.parse.attempted = 0
           /\ calc.resp.scores = <<>>

HeaderOnlyRejected ==
    /\ CsvDone
    /\ calc.file.filename = GoodName
    /\ HeaderComplete /\ Len(DataRows) = 0
    /\ calc.resp.parse.kind = "empty"

\* C15: when data row k is the first that the converter rejects, the upload is
\* rejected with a row error naming k, no row after k is converted and no
\* scores are returned.
RowErrorNamesFirstBadRow ==
    (/\ CsvDone
     /\ calc.file.filename = GoodName
     /\ HeaderComplete
     /\ BadRows # {})
        => /\ calc.resp.status = 400
           /\ calc.resp.parse.kind = "row_error"
           /\ calc.resp.parse.row \in BadRows
           /\ \A j \in BadRows : calc.resp.parse.row <= j
           /\ calc.resp.parse.attempted = calc.resp.parse.row
           /\ calc.resp.scores = <<>>

SecondRowRejected ==
    /\ CsvDone
    /\ calc.file.filename = GoodName
    /\ HeaderComplete
    /\ BadRows # {} /\ 1 \notin BadRows
    /\ Cardinality(BadRows) < Len(DataRows)
    /\ calc.resp.parse.kind = "row_error" /\ calc.resp.parse.row = 2

\* C16: a boolean field parses to true exactly when its lower-cased value is
\* one of true, 1, yes, y, on both conversion paths.
BoolTrueIffListed ==
    (CsvDone /\ calc.file_type = "submissions" /\ calc.resp.parse.ok)
        => \A i \in 1..Len(DataRows) :
            /\ Truthy(calc.resp.parse.records[i].has_judgements)
                <=> Lower(DataRows[i]["has_judgements"].s) \in TRUE_VALUES
            /\ Truthy(calc.resp.parse.records[i].financials_attached)
                <=> Lower(DataRows[i]["financials_attached"].s) \in TRUE_VALUES

\* the sector enumeration of models.py
SectorLiterals ==
    {<<"R", "e", "t", "a", "i", "l">>,
     <<"M", "a", "n", "u", "f", "a", "c", "t", "u", "r", "i", "n", "g">>,
     <<"L", "o", "g", "i", "s", "t", "i", "c", "s">>,
     <<"A", "g", "r", "i">>,
     <<"S", "e", "r", "v", "i", "c", "e", "s">>,
     <<"O", "t", "h", "e", "r">>}

\* the field constraints of Submission and Policy (models.py:8-35)
ValidSubmission(r) ==
    /\ r.sector \in SectorLiterals
    /\ r.exposure_limit >= 0 /\ r.debtor_days >= 0 /\ r.years_trading >= 0
    /\ 0 <= r.broker_hit_rate /\ r.broker_hit_rate <= 100
    /\ 0 <= r.requested_cov_pct /\ r.requested_cov_pct <= 100

ValidPolicy(r) ==
    /\ r.sector \in SectorLiterals
    /\ r.current_premium >= 0 /\ r.limit >= 0
    /\ 0 <= r.utilization_pct /\ r.utilization_pct <= 100
    /\ r.claims_last_24m_cnt >= 0 /\ r.claims_ratio_24m >= 0
    /\ r.days_to_expiry >= 0

\* C17: no record with a sector outside the enumeration or a field outside its
\* constraint reaches the feature normalizer.
OnlyValidRecordsReachNormalizer ==
    CsvDone
        => \A i \in 1..Len(calc.resp.reached) :
            IF calc.file_type = "policies"
            THEN ValidPolicy(calc.resp.reached[i])
            ELSE ValidSubmission(calc.resp.reached[i])

-----------------------------------------------------------------------------
(* Policy check: app/api/policy.py.  The payload is a sector and a requested *)
(* coverage fraction (in hundredths) that passed request validation.         *)

\* a faulty variant of the lookup: the 'default' entry is ignored
SectorLimitNoDefault(limits, sector) ==
    IF sector \in DOMAIN limits THEN limits[sector] ELSE 100

\* limits.get(payload.sector, limits.get("default", 1.0))
SectorLimit(limits, sector) ==
    IF sector \in DOMAIN limits THEN limits[sector]
    ELSE IF "default" \in DOMAIN limits THEN limits["default"]
    ELSE 100

\* policy_check(payload): [ok, status, allowed, max_allowed_cov_pct, cfg, cache]
policy_check(cache, document, payload) ==
    LET g == GetWeightsConfig(cache, document, KeyNoArgs) IN
    IF ~g.ok
    THEN [ok |-> FALSE, status |-> 500, allowed |-> FALSE, max_allowed_cov_pct |-> 0,
          cfg |-> NoConfig, cache |-> g.cache]
    ELSE LET sector_limit == SectorLimit(g.cfg.sector_coverage_limits, payload.sector)
         IN  IF payload.requested_cov_pct > sector_limit
             THEN [ok |-> TRUE, status |-> 400, allowed |-> FALSE,
                   max_allowed_cov_pct |-> sector_limit, cfg |-> g.cfg, cache |-> g.cache]
             ELSE [ok |-> TRUE, status |-> 200, allowed |-> TRUE,
                   max_allowed_cov_pct |-> sector_limit, cfg |-> g.cfg, cache |-> g.cache]

\* documents whose limits have only a default, and no entry at all
DocDefaultOnly ==
    [DocA EXCEPT !.version = <<"v", "8">>, !.sector_coverage_limits = [default |-> 85]]

DocNoLimits ==
    [DocA EXCEPT !.version = <<"v", "9">>,
                 !.sector_coverage_limits = [s \in {} |-> 0]]

PolicyDocuments == {DocA, DocDefaultOnly, DocNoLimits}

PolicyPayloads ==
    [sector : {"Retail", "Services", "Agri"},
     requested_cov_pct : {0, 50, 79, 80, 81, 84, 85, 86, 89, 90, 91, 95, 100}]

PolicyInit ==
    /\ doc \in PolicyDocuments
    /\ FreshProcess
    /\ ThreadsIdle
    /\ calc = [kind |-> "policy", n |-> 0]

\* POST /policy/check
PolicyCheck ==
    \E payload \in PolicyPayloads :
        \E r \in {policy_check(cfgCache, doc, payload)} :
            /\ cfgCache' = r.cache
            /\ calc' = [kind |-> "policy", n |-> 1, payload |-> payload, resp |-> r]
            /\ UNCHANGED <<doc, memo, lastOp, pin, prevResp, rl, rd, rdView>>

PolicyNext == PolicyCheck

SpecPolicy == PolicyInit /\ [][PolicyNext]_vars

PolicyChecked == calc.kind = "policy" /\ calc.n = 1 /\ calc.resp.ok

\* the limit that applies to the checked request under the handler's configuration
ApplicableLimit ==
    LET limits == calc.resp.cfg.sector_coverage_limits
    IN  IF calc.payload.sector \in DOMAIN limits THEN limits[calc.payload.sector]
        ELSE IF "default" \in DOMAIN limits THEN limits["default"]
        ELSE 100

\* C18: the request is rejected exactly when requested_cov_pct is strictly
\* greater than the limit of its sector (the sector's entry, else 'default',
\* else 1.0); an allowed response reports that limit.
PolicyCheckDecision ==
    PolicyChecked
        => /\ (calc.resp.status = 400) <=> (calc.payload.requested_cov_pct > ApplicableLimit)
           /\ (calc.resp.status = 200) <=> (calc.payload.requested_cov_pct <= ApplicableLimit)
           /\ calc.resp.allowed <=> (calc.resp.status = 200)
           /\ calc.resp.allowed => calc.resp.max_allowed_cov_pct = ApplicableLimit

\* a request at its limit, taken from the 'default' entry, was allowed
AllowedAtDefaultLimit ==
    /\ PolicyChecked
    /\ calc.payload.sector \notin DOMAIN calc.resp.cfg.sector_coverage_limits
    /\ "default" \in DOMAIN calc.resp.cfg.sector_coverage_limits
    /\ calc.payload.requested_cov_pct = ApplicableLimit
    /\ calc.resp.allowed

-----------------------------------------------------------------------------
(* Claims on bands and clip notes, under SpecRule *)

PricedSome == calc.kind = "price" /\ calc.n >= 1

\* the band the breakpoints give to a rate
BandByBreakpoints(rate) ==
    CASE rate <= 200 -> "A"
      [] rate \in 201..250 -> "B"
      [] rate \in 251..300 -> "C"
      [] rate \in 301..360 -> "D"
      [] OTHER -> "E"

BandRank(code) ==
    CASE code = "A" -> 1 [] code = "B" -> 2 [] code = "C" -> 3 [] code = "D" -> 4
      [] code = "E" -> 5

\* C19: the band of a suggestion is the band of its suggested rate under the
\* breakpoints 200, 250, 300, 360, and a higher rate never gets a lower band.
BandOfFinalRate ==
    PricedSome
        => /\ \A o \in {calc.out, calc.out2} :
                o.band_code = BandByBreakpoints(o.suggested_rate_bps)
           /\ \A o1, o2 \in {calc.out, calc.out2} :
                o1.suggested_rate_bps <= o2.suggested_rate_bps
                    => BandRank(o1.band_code) <= BandRank(o2.band_code)

\* a rate on a breakpoint and a higher rate two bands up have been priced
BreakpointAndHigherBandPriced ==
    /\ calc.kind = "price" /\ calc.n = 2
    /\ calc.out.suggested_rate_bps = 200 /\ calc.out.band_code = "A"
    /\ calc.out2.suggested_rate_bps > 250 /\ calc.out2.band_code = "C"

HasNote(o, label) ==
    \E i \in 1..Len(o.adjustments) : o.adjustments[i].label = label

\* C20: 'Rate clipped to minimum' is among the adjustments exactly when the
\* rate before clamping is strictly below bounds.min_rate, 'Rate clipped to
\* maximum' exactly when it is strictly above bounds.max_rate.
ClipNoteIffClamped ==
    (calc.kind = "price" /\ calc.n = 1)
        => /\ HasNote(calc.out, "Rate clipped to minimum")
                <=> PreClampRate(calc.cfg, calc.sub) < calc.cfg.pricing_bounds.min_rate
           /\ HasNote(calc.out, "Rate clipped to maximum")
                <=> PreClampRate(calc.cfg, calc.sub) > calc.cfg.pricing_bounds.max_rate

\* ---------------------------------------------------------------------------
\* The adjustment rule as a table
\* ---------------------------------------------------------------------------

\* the six conditions of the claim, in its order, each with its delta and label
ClaimedDeltas(cfg, f) ==
    LET a == cfg.pricing_adjustments
        t == cfg.thresholds
    IN  << [holds |-> f.financials_attached = 1, delta |-> a.financials_attached,
            label |-> "Financials attached"],
           [holds |-> f.broker_hit_rate >= t.broker_hit_rate_min, delta |-> a.broker_hit_rate,
            label |-> "Good broker track record"],
           [holds |-> f.debtor_days > t.debtor_days_max, delta |-> a.debtor_days,
            label |-> "High debtor days"],
           [holds |-> f.has_judgements = 1, delta |-> a.has_judgements,
            label |-> "Outstanding judgements"],
           [holds |-> f.requested_cov_pct > t.high_coverage_min, delta |-> a.high_coverage,
            label |-> "High coverage request"],
           [holds |-> f.years_trading < t.limited_trading_max, delta |-> a.limited_trading,
            label |-> "Limited trading history"] >>

Applied(cfg, f) == SelectSeq(ClaimedDeltas(cfg, f), LAMBDA c : c.holds)

RECURSIVE SumDeltas(_)
SumDeltas(s) == IF s = <<>> THEN 0 ELSE Head(s).delta + SumDeltas(Tail(s))

ClipLabels == {"Rate clipped to minimum", "Rate clipped to maximum"}

Labels(adjs) == [i \in 1..Len(adjs) |-> adjs[i].label]

\* C23: the returned rate is the clamp of sector base plus the deltas of the
\* conditions that hold, and the adjustments are one string per applied delta,
\* in the order financials, broker, debtor days, judgements, coverage, trading
\* history, followed by at most one clipping note.
RateIsBasePlusAppliedDeltas ==
    (calc.kind = "price" /\ calc.n = 1)
        => LET ap == Applied(calc.cfg, calc.sub)
               ls == Labels(calc.out.adjustments)
               k  == Len(ap)
           IN  /\ calc.out.suggested_rate_bps
                    = ClampRate(calc.cfg.pricing_bounds,
                                SECTOR_BASE_RATES[calc.sub.sector] + SumDeltas(ap))
               /\ Len(ls) \in {k, k + 1}
               /\ \A i \in 1..k : ls[i] = ap[i].label
               /\ Len(ls) = k + 1 => ls[k + 1] \in ClipLabels

SeveralDeltasAndClipNote ==
    /\ calc.kind = "price" /\ calc.n = 1
    /\ Len(Applied(calc.cfg, calc.sub)) >= 3
    /\ calc.sub.broker_hit_rate = calc.cfg.thresholds.broker_hit_rate_min
    /\ Len(calc.out.adjustments) = Len(Applied(calc.cfg, calc.sub)) + 1

\* ---------------------------------------------------------------------------
\* Triage reasons
\* ---------------------------------------------------------------------------

ReasonOrder ==
    <<"Financial statements provided", "Good broker quality track record",
      "Short debtor days", "Long debtor days warning",
      "Outstanding judgements warning", "Limited trading history",
      "Established trading history">>

ReasonPos(reason) == CHOOSE k \in 1..Len(ReasonOrder) : ReasonOrder[k] = reason

Among(reasons, reason) == \E j \in 1..Len(reasons) : reasons[j] = reason

\* C24: the reasons of each scored record are decided by the submitted record
\* alone: each reason is present exactly under its condition (60 < debtor_days
\* <= 120 gives neither debtor-days reason), the reasons follow the fixed check
\* order, and none appears twice.
TriageReasonsOfRecord ==
    (calc.kind = "triage" /\ calc.n = 1)
        => \A i \in 1..Len(calc.batch) :
               LET r   == calc.batch[i]
                   got == calc.scores[i].reasons
               IN  /\ \A j \in 1..Len(got) : got[j] \in Range(ReasonOrder)
                   /\ \A j, k \in 1..Len(got) : j < k => ReasonPos(got[j]) < ReasonPos(got[k])
                   /\ Among(got, "Financial statements provided") <=> r.financials_attached = 1
                   /\ Among(got, "Good broker quality track record") <=> r.broker_hit_rate >= 50
                   /\ Among(got, "Short debtor days") <=> r.debtor_days <= 60
                   /\ Among(got, "Long debtor days warning") <=> r.debtor_days > 120
                   /\ Among(got, "Outstanding judgements warning") <=> r.has_judgements = 1
                   /\ Among(got, "Limited trading history") <=> r.years_trading < 2
                   /\ Among(got, "Established trading history") <=> r.years_trading >= 10

ReasonsAtThresholds ==
    /\ calc.kind = "triage" /\ calc.n = 1
    /\ calc.batch[1].debtor_days = 120
    /\ calc.batch[1].years_trading = 10
    /\ calc.batch[1].broker_hit_rate = 50
    /\ calc.batch[1].has_judgements = 0
    /\ Len(calc.scores[1].reasons) = 3

\* ---------------------------------------------------------------------------
\* Renewal reasons
\* ---------------------------------------------------------------------------

\* the reason of one pair of checks: first when a holds, else second when b holds
PairReason(a, first, b, second) ==
    IF a THEN <<first>> ELSE IF b THEN <<second>> ELSE <<>>

ClaimedRenewalReasons(p) ==
    PairReason(p.days_to_expiry <= 30, "Expiring within 30 days",
               p.days_to_expiry <= 90, "Expiring soon")
 \o PairReason(p.utilization_pct >= 80, "High utilization",
               p.utilization_pct <= 30, "Low utilization")
 \o PairReason(p.claims_ratio_24m >= 150, "Elevated loss ratio",
               p.claims_ratio_24m <= 50, "Low loss ratio")
 \o PairReason(p.requested_change_pct < -10, "Client requesting significant reduction",
               p.requested_change_pct > 10, "Client requesting increase")

\* C25: a renewals request answers with, for every policy of the batch, the
\* reasons in the order expiry, utilization, loss ratio, requested change, at
\* most one from each pair, each under its condition.
RenewalReasonsInFixedOrder ==
    (calc.kind = "renewals" /\ calc.n = 1)
        => /\ calc.ok
           /\ Len(calc.scores) = Len(calc.batch)
           /\ \A i \in 1..Len(calc.batch) :
                  calc.scores[i].reasons = ClaimedRenewalReasons(calc.batch[i])

-----------------------------------------------------------------------------
(* The feature normalizer on raw records: app/features.py.  Flags arrive as  *)
(* booleans; a column of a frame is a field that every record has.           *)

\* pl.DataFrame(records): the frame has the columns of the records, and no
\* column at all when there is no record
FrameColumns(records) == IF records = <<>> THEN {} ELSE DOMAIN records[1]

\* cast(pl.Int8) of a boolean
CastInt8(b) == IF b THEN 1 ELSE 0

\* log1p(x), kept symbolic
Log1p(x) == [log1p |-> x]

WithColumn(r, name, value) ==
    [n \in DOMAIN r \cup {name} |-> IF n = name THEN value ELSE r[n]]

\* prepare_submissions_features(submissions): [ok, error, rows]; an expression
\* over a column the frame lacks raises ColumnNotFoundError
prepare_submissions_features(submissions) ==
    IF ~({"financials_attached", "has_judgements", "debtor_days", "years_trading",
          "exposure_limit"} \subseteq FrameColumns(submissions))
    THEN [ok |-> FALSE, error |-> "ColumnNotFoundError", rows |-> <<>>]
    ELSE [ok |-> TRUE, error |-> "",
          rows |-> PrepareSubmissionsFeatures(
                     [i \in 1..Len(submissions) |->
                        WithColumn(
                          [submissions[i] EXCEPT !.financials_attached = CastInt8(@),
                                                 !.has_judgements = CastInt8(@)],
                          "log_expo", Log1p(submissions[i].exposure_limit))])]

\* prepare_policies_features(policies): [ok, error, rows]
prepare_policies_features(policies) ==
    IF ~({"utilization_pct", "claims_ratio_24m", "days_to_expiry"}
            \subseteq FrameColumns(policies))
    THEN [ok |-> FALSE, error |-> "ColumnNotFoundError", rows |-> <<>>]
    ELSE [ok |-> TRUE, error |-> "", rows |-> PreparePoliciesFeatures(policies)]

RawSubmissions ==
    [submission_id : {"f1"}, sector : {"Agri"}, exposure_limit : {750},
     debtor_days : {0, 90, 180, 400}, financials_attached : BOOLEAN,
     years_trading : {0, 15, 30, 45}, broker_hit_rate : {60},
     requested_cov_pct : {80}, has_judgements : BOOLEAN]

RawSubmissionPeer ==
    [submission_id |-> "f2", sector |-> "Other", exposure_limit |-> 0,
     debtor_days |-> 181, financials_attached |-> TRUE, years_trading |-> 31,
     broker_hit_rate |-> 10, requested_cov_pct |-> 50, has_judgements |-> FALSE]

RawSubmissionBatches ==
    {<<>>} \cup {<<a>> : a \in RawSubmissions}
           \cup {<<a, RawSubmissionPeer>> : a \in RawSubmissions}

RawPolicies ==
    [policy_id : {"g1"}, sector : {"Agri"}, utilization_pct : {0, 50, 100},
     claims_ratio_24m : {0, 500, 650}, days_to_expiry : {0, 365, 400},
     requested_change_pct : {-15}]

RawPolicyBatches ==
    {<<>>} \cup {<<a>> : a \in RawPolicies} \cup {<<PolicyPeer, a>> : a \in RawPolicies}

FeaturesInit ==
    /\ doc = DocA
    /\ FreshProcess
    /\ ThreadsIdle
    /\ \/ \E b \in RawSubmissionBatches :
              calc = [kind |-> "features", phase |-> "raw", of |-> "submissions", batch |-> b]
       \/ \E b \in RawPolicyBatches :
              calc = [kind |-> "features", phase |-> "raw", of |-> "policies", batch |-> b]

Normalized(r) ==
    [kind |-> "features", phase |-> "normalized", of |-> calc.of, batch |-> calc.batch,
     ok |-> r.ok, error |-> r.error, rows |-> r.rows]

NormalizeSubmissions ==
    /\ calc.kind = "features" /\ calc.phase = "raw" /\ calc.of = "submissions"
    /\ \E r \in {prepare_submissions_features(calc.batch)} : calc' = Normalized(r)
    /\ UNCHANGED <<doc, cfgCache, memo, lastOp, pin, prevResp, rl, rd, rdView>>

NormalizePolicies ==
    /\ calc.kind = "features" /\ calc.phase = "raw" /\ calc.of = "policies"
    /\ \E r \in {prepare_policies_features(calc.batch)} : calc' = Normalized(r)
    /\ UNCHANGED <<doc, cfgCache, memo, lastOp, pin, prevResp, rl, rd, rdView>>

FeaturesNext == NormalizeSubmissions \/ NormalizePolicies

SpecFeatures == FeaturesInit /\ [][FeaturesNext]_vars

Saturated(lo, hi, v) == IF v < lo THEN lo ELSE IF v > hi THEN hi ELSE v

ClippedFields == {"debtor_days", "years_trading", "utilization_pct",
                  "claims_ratio_24m", "days_to_expiry"}

FlagFields == {"financials_attached", "has_judgements"}

\* C26: the normalizer returns, for every batch of N well-typed records, N
\* records in the same order, the clipped fields equal to the input value
\* when in range and to the nearest bound otherwise, flags as 0/1 and every
\* other field as submitted.
NormalizerTotalAndSaturating ==
    (calc.kind = "features" /\ calc.phase = "normalized")
        => /\ calc.ok
           /\ Len(calc.rows) = Len(calc.batch)
           /\ \A i \in 1..Len(calc.batch) :
                LET raw == calc.batch[i]
                    out == calc.rows[i]
                IN  /\ \A n \in DOMAIN raw \ (ClippedFields \cup FlagFields) : out[n] = raw[n]
                    /\ \A n \in DOMAIN raw \cap FlagFields : out[n] = (IF raw[n] THEN 1 ELSE 0)
                    /\ calc.of = "submissions"
                          => /\ out.debtor_days = Saturated(0, 180, raw.debtor_days)
                             /\ out.years_trading = Saturated(0, 30, raw.years_trading)
                    /\ calc.of = "policies"
                          => /\ out.utilization_pct = Saturated(0, 100, raw.utilization_pct)
                             /\ out.claims_ratio_24m = Saturated(0, 500, raw.claims_ratio_24m)
                             /\ out.days_to_expiry = Saturated(0, 365, raw.days_to_expiry)

\* the same for batches of at least one record
NormalizerSaturatingOnRecords ==
    (calc.kind = "features" /\ calc.phase = "normalized" /\ calc.batch # <<>>)
        => NormalizerTotalAndSaturating

\* ---------------------------------------------------------------------------
\* The sign of an adjustment string
\* ---------------------------------------------------------------------------

ConfiguredDelta(cfg, label) ==
    LET a == cfg.pricing_adjustments
    IN  CASE label = "Financials attached" -> a.financials_attached
          [] label = "Good broker track record" -> a.broker_hit_rate
          [] label = "High debtor days" -> a.debtor_days
          [] label = "Outstanding judgements" -> a.has_judgements
          [] label = "High coverage request" -> a.high_coverage
          [] label = "Limited trading history" -> a.limited_trading

\* C27: every adjustment string of a priced record shows the configured value
\* of its delta with one sign of its own: a minus and the magnitude for a
\* negative value, a plus and the magnitude otherwise.
AdjustmentShowsConfiguredSign ==
    (calc.kind = "price" /\ calc.n = 1)
        => \A i \in 1..Len(calc.out.adjustments) :
               LET s == calc.out.adjustments[i]
               IN  s.label \notin ClipLabels
                      => LET v == ConfiguredDelta(calc.cfg, s.label)
                         IN  /\ s.sign = (IF v < 0 THEN "-" ELSE "+")
                             /\ s.mag = (IF v < 0 THEN -v ELSE v)

\* ---------------------------------------------------------------------------
\* Exposure normalization
\* ---------------------------------------------------------------------------

BatchExposures == {calc.batch[i].exposure_limit : i \in 1..Len(calc.batch)}

BatchMax == CHOOSE m \in BatchExposures : \A e \in BatchExposures : e <= m

BatchMin == CHOOSE m \in BatchExposures : \A e \in BatchExposures : m <= e

\* a request scored under the configuration whose score is the exposure term
ExposureTermScored ==
    calc.kind = "triage" /\ calc.n = 1 /\ calc.cfg = DocExposureOnly

DifferentExposuresScored ==
    /\ ExposureTermScored
    /\ Len(calc.batch) = 3
    /\ BatchMin < BatchMax
    /\ calc.scores[2].score = Fin(1, 4)

\* ---------------------------------------------------------------------------
\* The two ingestion implementations on one upload
\* ---------------------------------------------------------------------------

\* what the implementation that did not handle the upload makes of the same file
OtherParse ==
    CHOOSE p \in {IF calc.path = "main"
                  THEN parse_csv_upload(calc.file, RequiredColumns(calc.file_type),
                                        calc.file_type)
                  ELSE MainParseCsv(calc.file, RequiredColumns(calc.file_type),
                                    calc.file_type)} : TRUE

\* C30: the handlers of app/main.py and api/common.parse_csv_upload treat every
\* upload alike: both reject it with the same error kind (and the same row for
\* a row error), or both accept it and convert it to the same records.
IngestionPathsAgree ==
    CsvDone
        => /\ calc.resp.parse.ok = OtherParse.ok
           /\ calc.resp.parse.kind = OtherParse.kind
           /\ calc.resp.parse.row = OtherParse.row
           /\ calc.resp.parse.records = OtherParse.records

====
